---------------------------- MODULE Spec2Model ----------------------------
(***************************************************************************)
(* WaveSyncDB: the connection wrapper (connection.rs), the LWW comparator  *)
(* (conflict.rs), the operation log (sync_log.rs), the table registry      *)
(* (registry.rs) and the engine's local / remote op handling (engine.rs).  *)
(***************************************************************************)
EXTENDS Integers, Sequences, FiniteSets, Bags, TLC

(***************************************************************************)
(* Strings.  A string is a sequence of chunks (short pieces of text); a    *)
(* SQL statement is the sequence of its whitespace-separated words, each   *)
(* word a string.                                                          *)
(***************************************************************************)
starts_with(s, p) == Len(s) >= Len(p) /\ SubSeq(s, 1, Len(p)) = p

\* str::trim_matches(c): strip every leading and trailing chunk equal to c.
RECURSIVE trim_start_matches(_, _)
trim_start_matches(s, c) ==
    IF s # << >> /\ Head(s) = c THEN trim_start_matches(Tail(s), c) ELSE s

RECURSIVE trim_end_matches(_, _)
trim_end_matches(s, c) ==
    IF s # << >> /\ s[Len(s)] = c
    THEN trim_end_matches(SubSeq(s, 1, Len(s) - 1), c)
    ELSE s

trim_matches(s, c) == trim_end_matches(trim_start_matches(s, c), c)

\* str::to_uppercase on the chunks the model uses.
UpperChunk(c) ==
    CASE c = "insert" -> "INSERT"
      [] c = "update" -> "UPDATE"
      [] c = "delete" -> "DELETE"
      [] c = "into" -> "INTO"
      [] c = "returning" -> "RETURNING"
      [] OTHER -> c

to_uppercase(s) == [i \in 1..Len(s) |-> UpperChunk(s[i])]

(***************************************************************************)
(* Node identifiers: 16 bytes.                                             *)
(***************************************************************************)
NodeIdLen == 16

MkId(a, b) == [i \in 1..NodeIdLen |-> IF i < NodeIdLen THEN a ELSE b]

\* Lexicographic order of two byte arrays of equal length ([u8; 16]: Ord).
RECURSIVE BytesGreaterFrom(_, _, _)
BytesGreaterFrom(x, y, i) ==
    IF i > Len(x) THEN FALSE
    ELSE IF x[i] # y[i] THEN x[i] > y[i]
    ELSE BytesGreaterFrom(x, y, i + 1)

BytesGreater(x, y) == BytesGreaterFrom(x, y, 1)

(***************************************************************************)
(* conflict.rs: should_apply.  An Option<&SyncOperation> is the empty set  *)
(* (None) or a singleton (Some).                                           *)
(***************************************************************************)
TupleGreater(r, l) ==
    \/ r.hlc_time > l.hlc_time
    \/ /\ r.hlc_time = l.hlc_time
       /\ \/ r.hlc_counter > l.hlc_counter
          \/ /\ r.hlc_counter = l.hlc_counter
             /\ BytesGreater(r.node_id, l.node_id)

\* should_apply with the node_id tie-break left out.
should_apply_no_tiebreak(remote, local) ==
    \/ local = {}
    \/ \E l \in local :
          \/ remote.hlc_time > l.hlc_time
          \/ /\ remote.hlc_time = l.hlc_time
             /\ remote.hlc_counter > l.hlc_counter

\* should_apply with >= in place of >.
should_apply_non_strict(remote, local) ==
    \/ local = {}
    \/ \E l \in local : ~TupleGreater(l, remote)

should_apply(remote, local) ==
    \/ local = {}
    \/ \E l \in local : TupleGreater(remote, l)

(***************************************************************************)
(* Tables, rows and statements.                                            *)
(***************************************************************************)
ReservedPrefix == <<"_wavesync">>
Tasks == <<"tasks">>
Cache == <<"cache">>
Internal == <<"_wavesync", "_meta">>
StoreTables == {Tasks, Cache, Internal}

U1 == <<"u1">>
U2 == <<"u2">>
Rows == {U1, U2}
NoRow == << >>

\* The quote characters " and ` as chunks.
DQ == "\""
BT == "BACKTICK"
Quoted(q, t) == <<q>> \o t \o <<q>>

InsertSql(tok, row, val) == << <<"INSERT">>, <<"INTO">>, tok, row, val >>
InsertReturningSql(tok, row, val) ==
    InsertSql(tok, row, val) \o << <<"RETURNING">>, Quoted(DQ, <<"id">>) >>
UpdateSql(tok, row, val) ==
    << <<"UPDATE">>, tok, <<"SET">>, val, <<"WHERE">>, row >>
DeleteLowerSql(tok, row) ==
    << <<"delete">>, <<"from">>, tok, <<"WHERE">>, row >>
SelectSql(tok) == << <<"SELECT">>, <<"FROM">>, tok >>

(***************************************************************************)
(* The local SQL store (the embedded database behind                       *)
(* DatabaseConnection): what a statement does to it.                       *)
(***************************************************************************)
\* A column list written without a space after the table name, as in
\* INSERT INTO tasks(id) ..., belongs to the same whitespace-separated word.
ColumnList == "(id)"

Unquote(tok) ==
    trim_matches(trim_matches(SelectSeq(tok, LAMBDA c : c # ColumnList), DQ), BT)

SqlParse(sql) ==
    LET w == [i \in 1..Len(sql) |-> to_uppercase(sql[i])] IN
    IF Len(sql) >= 7 /\ w[1] = <<"INSERT">> /\ w[2] = <<"OR">>
         /\ w[3] = <<"REPLACE">> /\ w[4] = <<"INTO">>
    THEN [verb |-> "REPLACE", table |-> Unquote(sql[5]), row |-> sql[6], val |-> sql[7]]
    ELSE IF Len(sql) >= 5 /\ w[1] = <<"INSERT">> /\ w[2] = <<"INTO">>
    THEN [verb |-> "INSERT", table |-> Unquote(sql[3]), row |-> sql[4], val |-> sql[5]]
    ELSE IF Len(sql) >= 6 /\ w[1] = <<"UPDATE">> /\ w[3] = <<"SET">>
    THEN [verb |-> "UPDATE", table |-> Unquote(sql[2]), row |-> sql[6], val |-> sql[4]]
    ELSE IF Len(sql) >= 5 /\ w[1] = <<"DELETE">> /\ w[2] = <<"FROM">>
    THEN [verb |-> "DELETE", table |-> Unquote(sql[3]), row |-> sql[5], val |-> NoRow]
    ELSE IF Len(sql) >= 3 /\ w[1] = <<"SELECT">>
    THEN [verb |-> "SELECT", table |-> Unquote(sql[3]), row |-> NoRow, val |-> NoRow]
    ELSE [verb |-> "ERROR", table |-> << >>, row |-> NoRow, val |-> NoRow]

\* Result<ExecResult, DbErr> of executing sql on store st, and the store after.
SqlExecute(st, sql) ==
    LET p == SqlParse(sql) IN
    IF p.verb = "ERROR" \/ p.table \notin DOMAIN st
    THEN [ok |-> FALSE, store |-> st]
    ELSE IF p.verb = "INSERT" /\ st[p.table][p.row] # NoRow
    THEN [ok |-> FALSE, store |-> st]           \* PRIMARY KEY constraint
    ELSE IF p.verb \in {"INSERT", "REPLACE"}
    THEN [ok |-> TRUE, store |-> [st EXCEPT ![p.table][p.row] = p.val]]
    ELSE IF p.verb = "UPDATE" /\ st[p.table][p.row] # NoRow
    THEN [ok |-> TRUE, store |-> [st EXCEPT ![p.table][p.row] = p.val]]
    ELSE IF p.verb = "DELETE"
    THEN [ok |-> TRUE, store |-> [st EXCEPT ![p.table][p.row] = NoRow]]
    ELSE [ok |-> TRUE, store |-> st]

(***************************************************************************)
(* messages.rs shapes, as connection.rs and engine.rs build them.          *)
(***************************************************************************)
SyncOperation(id, time, counter, node, table, kind, pk, sql) ==
    [op_id |-> id, hlc_time |-> time, hlc_counter |-> counter, node_id |-> node,
     table |-> table, kind |-> kind, primary_key |-> pk, data |-> sql,
     columns |-> "None"]

ChangeNotification(table, kind, pk) ==
    [table |-> table, kind |-> kind, primary_key |-> pk]

EmptyString == << >>

(***************************************************************************)
(* connection.rs: classify_write.  None is {}, Some(x) is {x}.             *)
(***************************************************************************)
classify_table(word) == trim_matches(trim_matches(word, DQ), BT)

classify_write(sql) ==
    LET trimmed == to_uppercase(sql[1]) IN
    IF starts_with(trimmed, <<"INSERT">>)
    THEN IF Len(sql) >= 3
         THEN {[kind |-> "Insert", table |-> classify_table(sql[3])]} ELSE {}
    ELSE IF starts_with(trimmed, <<"UPDATE">>)
    THEN IF Len(sql) >= 2
         THEN {[kind |-> "Update", table |-> classify_table(sql[2])]} ELSE {}
    ELSE IF starts_with(trimmed, <<"DELETE">>)
    THEN IF Len(sql) >= 3
         THEN {[kind |-> "Delete", table |-> classify_table(sql[3])]} ELSE {}
    ELSE {}

(***************************************************************************)
(* connection.rs: next_hlc over uhlc::HLC.  The clock keeps last_time; a   *)
(* reading of the wall clock has its low counter bits cleared, and the new *)
(* time is the reading when that is later, else last_time + 1.             *)
(***************************************************************************)
CounterRange == 16

ClearCounter(t) == t - (t % CounterRange)

\* A clock that trusts the wall clock, also when it went backwards.
new_timestamp_wall_only(last_time, now) == ClearCounter(now)

new_timestamp(last_time, now) ==
    IF ClearCounter(now) > ClearCounter(last_time)
    THEN ClearCounter(now)
    ELSE last_time + 1

\* uhlc::ID of a node id (NonZeroU128, 1 for the all-zero id), first LE byte.
IdFirstByte(node) ==
    IF \A i \in 1..Len(node) : node[i] = 0 THEN 1 ELSE node[1]

next_hlc(last_time, now, node) ==
    LET ts == new_timestamp(last_time, now) IN
    [last_time |-> ts, hlc_time |-> ts, hlc_counter |-> IdFirstByte(node)]

\* dispatch_sync's first check: table.starts_with("_wavesync").
\* A check that takes only the bare prefix itself for an internal table.
is_reserved_exact(table) == table = ReservedPrefix

is_reserved(table) == starts_with(table, ReservedPrefix)

(***************************************************************************)
(* registry.rs                                                             *)
(***************************************************************************)
\* A registry check that lets every table through.
is_registered_always(tables, table_name) == TRUE

is_registered(tables, table_name) == table_name \in DOMAIN tables

TableMeta(table_name, primary_key_column, columns) ==
    [table_name |-> table_name, primary_key_column |-> primary_key_column,
     columns |-> columns]

\* TableRegistry::new
EmptyRegistry == [table_name \in {} |-> TableMeta(table_name, "", << >>)]

\* HashMap::insert into a registry that keeps its old entry for the name.
register_keep_first(tables, meta) ==
    [table_name \in DOMAIN tables \cup {meta.table_name} |->
        IF table_name \in DOMAIN tables THEN tables[table_name] ELSE meta]

register(tables, meta) ==
    [table_name \in DOMAIN tables \cup {meta.table_name} |->
        IF table_name = meta.table_name THEN meta ELSE tables[table_name]]

get(tables, table_name) ==
    IF table_name \in DOMAIN tables THEN {tables[table_name]} ELSE {}

\* The TableMeta push_entity builds for an entity with the columns id, title.
EntityMeta(table_name) == TableMeta(table_name, "id", <<"id", "title">>)

RegistryOf(names) == [table_name \in names |-> EntityMeta(table_name)]

(***************************************************************************)
(* sync_log.rs: the _wavesync_log table as a bag of rows.                  *)
(***************************************************************************)
\* hlc_time is a u64 in SyncOperation and an i64 in the table: insert_op
\* binds (op.hlc_time as i64), into_sync_op reads (self.hlc_time as u64),
\* get_ops_since binds (since_hlc as i64).  The model scales the 64-bit word
\* to U64Bits bits: U64Span stands for 2^64 and U64Span \div 2 for 2^63.
U64Bits == 10
U64Span == 2 ^ U64Bits

as_i64(v) == IF v >= U64Span \div 2 THEN v - U64Span ELSE v

as_u64(v) == IF v < 0 THEN v + U64Span ELSE v

\* The row insert_op binds for an op, and the op into_sync_op makes of a row.
LogRow(op) == [op EXCEPT !.hlc_time = as_i64(@)]

into_sync_op(row) == [row EXCEPT !.hlc_time = as_u64(@)]

\* A plain INSERT that keeps the row already stored under op_id.
insert_op_no_replace(lg, op) == lg (+) SetToBag({LogRow(op)})

\* insert_op whose INSERT never reaches the table.
insert_op_lost(lg, op) == lg

insert_op(lg, op) ==
    LET kept == {r \in DOMAIN lg : r.op_id # op.op_id} IN
    [r \in kept |-> lg[r]] (+) SetToBag({LogRow(op)})

\* CREATE TABLE IF NOT EXISTS _wavesync_log, and the same without the
\* IF NOT EXISTS on a store that was wiped first.
create_log_table_fresh(exists, lg) == EmptyBag

create_log_table(exists, lg) == IF exists THEN lg ELSE EmptyBag

HlcPairGreater(a, b) ==
    \/ a.hlc_time > b.hlc_time
    \/ a.hlc_time = b.hlc_time /\ a.hlc_counter > b.hlc_counter

\* WHERE table_name = $1 AND primary_key = $2
\* ORDER BY hlc_time DESC, hlc_counter DESC LIMIT 1: the possible results;
\* rows that tie on (hlc_time, hlc_counter) come in an order SQL leaves open.
get_latest_for_row(lg, table, pk) ==
    LET rows == {r \in DOMAIN lg : r.table = table /\ r.primary_key = pk}
        first == {r \in rows : \A q \in rows : ~HlcPairGreater(q, r)}
    IN  IF rows = {} THEN {{}} ELSE {{into_sync_op(r)} : r \in first}

\* The rows in one order that ORDER BY hlc_time ASC, hlc_counter ASC allows.
Ascending(rows) ==
    { f \in [1..Cardinality(rows) -> rows] :
        /\ \A i, j \in DOMAIN f : i # j => f[i] # f[j]
        /\ \A i, j \in DOMAIN f :
              i < j => ~HlcPairGreater(f[i], f[j]) }

\* get_ops_since with LIMIT 0 added to its SELECT.
get_ops_since_limit_0(lg, since_hlc) == {<< >>}

\* WHERE hlc_time > $1 ORDER BY hlc_time ASC, hlc_counter ASC over the
\* stored rows, each row turned into a SyncOperation: the possible results.
get_ops_since(lg, since_hlc) ==
    { [i \in DOMAIN f |-> into_sync_op(f[i])] :
        f \in Ascending({r \in DOMAIN lg : r.hlc_time > as_i64(since_hlc)}) }

\* DELETE FROM _wavesync_log WHERE hlc_time < $1 over the stored rows, with
\* (before_hlc as i64) bound.
compact(lg, before_hlc) ==
    LET kept == {r \in DOMAIN lg : ~(r.hlc_time < as_i64(before_hlc))} IN
    [r \in kept |-> lg[r]]

(***************************************************************************)
(* engine.rs: statement rewriting of apply_remote_op.                      *)
(***************************************************************************)
\* rfind(" RETURNING "): the last word RETURNING with a word on each side.
strip_returning(sql) ==
    LET up == [i \in 1..Len(sql) |-> to_uppercase(sql[i])]
        hits == {i \in 2..(Len(sql) - 1) : up[i] = <<"RETURNING">>}
    IN  IF hits = {} THEN sql
        ELSE SubSeq(sql, 1, (CHOOSE i \in hits : \A j \in hits : j <= i) - 1)

\* replacen("INSERT INTO", "INSERT OR REPLACE INTO", 1)
replace_insert_into(sql) ==
    LET hits == {i \in 1..(Len(sql) - 1) :
                    sql[i] = <<"INSERT">> /\ sql[i + 1] = <<"INTO">>}
    IN  IF hits = {} THEN sql
        ELSE LET i == CHOOSE k \in hits : \A j \in hits : k <= j IN
             SubSeq(sql, 1, i - 1)
               \o << <<"INSERT">>, <<"OR">>, <<"REPLACE">>, <<"INTO">> >>
               \o SubSeq(sql, i + 2, Len(sql))

final_sql(op) ==
    LET clean_sql == strip_returning(op.data) IN
    IF op.kind = "Insert" THEN replace_insert_into(clean_sql) ELSE clean_sql

(***************************************************************************)
(* instrument/util.rs: rewrite_debugquery_to_sql.  The text is a sequence  *)
(* of characters; " binds:" stands for its seven characters, none of which *)
(* the scanners look at, and NULL, true and false for theirs.              *)
(***************************************************************************)
SQ == "'"
NL == "\n"
Space == " "
Whitespace == {Space, NL}
Digits == {"0", "1", "2", "7", "8"}
BindsMarker == <<"-", "-", " binds:">>

DigitVal(c) ==
    CASE c = "0" -> 0 [] c = "1" -> 1 [] c = "2" -> 2 [] c = "7" -> 7 [] c = "8" -> 8

\* str::parse::<usize> of a string of digits
RECURSIVE parse_usize(_)
parse_usize(n) ==
    IF n = << >> THEN 0
    ELSE 10 * parse_usize(SubSeq(n, 1, Len(n) - 1)) + DigitVal(n[Len(n)])

RECURSIVE trim_start(_)
trim_start(s) ==
    IF s # << >> /\ Head(s) \in Whitespace THEN trim_start(Tail(s)) ELSE s

RECURSIVE trim_end(_)
trim_end(s) ==
    IF s # << >> /\ s[Len(s)] \in Whitespace
    THEN trim_end(SubSeq(s, 1, Len(s) - 1))
    ELSE s

trim(s) == trim_end(trim_start(s))

\* str::find and str::rfind of one character: the positions, 0 for None.
find(s, c) ==
    IF \E i \in DOMAIN s : s[i] = c
    THEN CHOOSE i \in DOMAIN s : s[i] = c /\ \A j \in 1..(i - 1) : s[j] # c
    ELSE 0

rfind(s, c) ==
    IF \E i \in DOMAIN s : s[i] = c
    THEN CHOOSE i \in DOMAIN s : s[i] = c /\ \A j \in (i + 1)..Len(s) : s[j] # c
    ELSE 0

MatchesAt(s, pat, i) ==
    i + Len(pat) - 1 <= Len(s) /\ SubSeq(s, i, i + Len(pat) - 1) = pat

\* str::split_once: the text before and after the first occurrence.
split_once(s, pat) ==
    IF \E i \in DOMAIN s : MatchesAt(s, pat, i)
    THEN LET i == CHOOSE k \in DOMAIN s :
                    MatchesAt(s, pat, k) /\ \A j \in 1..(k - 1) : ~MatchesAt(s, pat, j)
         IN  {<<SubSeq(s, 1, i - 1), SubSeq(s, i + Len(pat), Len(s))>>}
    ELSE {}

Bind(raw, was_quoted) == [raw |-> raw, was_quoted |-> was_quoted]

\* The for loop of parse_binds and the push of the tail after it.
RECURSIVE parse_binds_from(_, _, _, _, _, _, _)
parse_binds_from(s, i, out, cur, in_str, esc, was_quoted) ==
    IF i > Len(s)
    THEN IF trim(cur) # << >> \/ was_quoted
         THEN Append(out, Bind(trim(cur), was_quoted))
         ELSE out
    ELSE LET ch == s[i] IN
         IF in_str /\ esc
         THEN parse_binds_from(s, i + 1, out, Append(cur, ch), TRUE, FALSE, was_quoted)
         ELSE IF in_str /\ ch = "\\"
         THEN parse_binds_from(s, i + 1, out, cur, TRUE, TRUE, was_quoted)
         ELSE IF in_str /\ ch = DQ
         THEN parse_binds_from(s, i + 1, out, cur, FALSE, FALSE, was_quoted)
         ELSE IF in_str
         THEN parse_binds_from(s, i + 1, out, Append(cur, ch), TRUE, FALSE, was_quoted)
         ELSE IF ch = DQ
         THEN parse_binds_from(s, i + 1, out, cur, TRUE, esc, TRUE)
         ELSE IF ch = ","
         THEN parse_binds_from(s, i + 1,
                               IF trim(cur) # << >> \/ was_quoted
                               THEN Append(out, Bind(trim(cur), was_quoted))
                               ELSE out,
                               << >>, FALSE, esc, FALSE)
         ELSE parse_binds_from(s, i + 1, out, Append(cur, ch), FALSE, esc, was_quoted)

\* Result<Vec<Bind>, RewriterError>: {} is Err(MalformedBinds).
parse_binds(binds_part) ==
    LET s == trim(binds_part)
        lb == find(s, "[")
        rb == rfind(s, "]")
    IN  IF lb = 0 \/ rb = 0 \/ rb < lb
        THEN {}
        ELSE {parse_binds_from(SubSeq(s, lb + 1, rb - 1), 1, << >>, << >>,
                               FALSE, FALSE, FALSE)}

RECURSIVE replace_quote(_)
replace_quote(s) ==
    IF s = << >> THEN << >>
    ELSE (IF Head(s) = SQ THEN <<SQ, SQ>> ELSE <<Head(s)>>) \o replace_quote(Tail(s))

format_literal(bind, dialect) ==
    LET s == bind.raw IN
    IF ~bind.was_quoted /\ s \in {<<"NULL">>, <<"null">>}
    THEN <<"NULL">>
    ELSE IF ~bind.was_quoted /\ s \in {<<"true">>, <<"false">>}
    THEN IF dialect = "SQLite"
         THEN (IF s = <<"true">> THEN <<"1">> ELSE <<"0">>)
         ELSE s
    ELSE IF ~bind.was_quoted /\ s # << >> /\ \A i \in DOMAIN s : s[i] \in Digits
    THEN s
    ELSE <<SQ>> \o replace_quote(s) \o <<SQ>>

NoFlags == [in_sq |-> FALSE, in_dq |-> FALSE, in_bt |-> FALSE,
            in_lc |-> FALSE, in_bc |-> FALSE]

Peek(sql, i) == IF i + 1 <= Len(sql) THEN {sql[i + 1]} ELSE {}

\* The digits that follow position i: `while let Some(d) = it.peek()`.
RECURSIVE DigitsAfter(_, _)
DigitsAfter(sql, i) ==
    IF i + 1 <= Len(sql) /\ sql[i + 1] \in Digits
    THEN <<sql[i + 1]>> \o DigitsAfter(sql, i + 1)
    ELSE << >>

\* What the comment and quote handling of both scanners does with the
\* character at i: the flags afterwards, the characters consumed, and
\* whether the character is left to the placeholder match.
Lexed(sql, i, f) ==
    LET c == sql[i]
        quoted == f.in_sq \/ f.in_dq \/ f.in_bt
    IN  IF f.in_lc
        THEN [flags |-> [f EXCEPT !.in_lc = (c # NL)], used |-> 1, plain |-> FALSE]
        ELSE IF f.in_bc
        THEN IF c = "*" /\ Peek(sql, i) = {"/"}
             THEN [flags |-> [f EXCEPT !.in_bc = FALSE], used |-> 2, plain |-> FALSE]
             ELSE [flags |-> f, used |-> 1, plain |-> FALSE]
        ELSE IF c = SQ /\ ~f.in_dq /\ ~f.in_bt
        THEN IF f.in_sq /\ Peek(sql, i) = {SQ}
             THEN [flags |-> f, used |-> 2, plain |-> FALSE]
             ELSE [flags |-> [f EXCEPT !.in_sq = ~f.in_sq], used |-> 1, plain |-> FALSE]
        ELSE IF c = DQ /\ ~f.in_sq /\ ~f.in_bt
        THEN [flags |-> [f EXCEPT !.in_dq = ~f.in_dq], used |-> 1, plain |-> FALSE]
        ELSE IF c = BT /\ ~f.in_sq /\ ~f.in_dq
        THEN [flags |-> [f EXCEPT !.in_bt = ~f.in_bt], used |-> 1, plain |-> FALSE]
        ELSE IF c = "-" /\ ~quoted /\ Peek(sql, i) = {"-"}
        THEN [flags |-> [f EXCEPT !.in_lc = TRUE], used |-> 2, plain |-> FALSE]
        ELSE IF c = "/" /\ ~quoted /\ Peek(sql, i) = {"*"}
        THEN [flags |-> [f EXCEPT !.in_bc = TRUE], used |-> 2, plain |-> FALSE]
        ELSE IF quoted
        THEN [flags |-> f, used |-> 1, plain |-> FALSE]
        ELSE [flags |-> f, used |-> 1, plain |-> TRUE]

RECURSIVE count_placeholders_from(_, _, _, _)
count_placeholders_from(sql, i, f, dialect) ==
    IF i > Len(sql) THEN 0
    ELSE LET l == Lexed(sql, i, f) IN
         IF ~l.plain
         THEN count_placeholders_from(sql, i + l.used, l.flags, dialect)
         ELSE IF dialect \in {"SQLite", "MySQL"}
         THEN (IF sql[i] = "?" THEN 1 ELSE 0)
              + count_placeholders_from(sql, i + 1, f, dialect)
         ELSE IF dialect = "PostgreSQL"
         THEN IF sql[i] = "$"
              THEN LET n == DigitsAfter(sql, i) IN
                   (IF n # << >> THEN 1 ELSE 0)
                   + count_placeholders_from(sql, i + 1 + Len(n), f, dialect)
              ELSE count_placeholders_from(sql, i + 1, f, dialect)
         ELSE 0

count_placeholders(sql, dialect) ==
    IF dialect = "Unknown" THEN 0
    ELSE count_placeholders_from(sql, 1, NoFlags, dialect)

\* The rewriting loop: out, or a panic on binds[..] out of range.
RECURSIVE rewrite_from(_, _, _, _, _, _)
rewrite_from(sql, i, f, bi, binds, dialect) ==
    IF i > Len(sql) THEN [panic |-> FALSE, out |-> << >>]
    ELSE LET l == Lexed(sql, i, f)
             next(used, flags, b) == rewrite_from(sql, i + used, flags, b, binds, dialect)
             push(text, rest) == [rest EXCEPT !.out = text \o @]
         IN  IF ~l.plain
             THEN push(SubSeq(sql, i, i + l.used - 1), next(l.used, l.flags, bi))
             ELSE IF dialect \in {"SQLite", "MySQL"}
             THEN IF sql[i] = "?"
                  THEN IF bi + 1 \in DOMAIN binds
                       THEN push(format_literal(binds[bi + 1], dialect),
                                 next(1, f, bi + 1))
                       ELSE [panic |-> TRUE, out |-> << >>]
                  ELSE push(<<sql[i]>>, next(1, f, bi))
             ELSE IF dialect = "PostgreSQL"
             THEN IF sql[i] = "$"
                  THEN LET n == DigitsAfter(sql, i) IN
                       IF n # << >>
                       THEN IF parse_usize(n) \in DOMAIN binds
                            THEN push(format_literal(binds[parse_usize(n)], dialect),
                                      next(1 + Len(n), f, bi))
                            ELSE [panic |-> TRUE, out |-> << >>]
                       ELSE push(<<"$">>, next(1, f, bi))
                  ELSE push(<<sql[i]>>, next(1, f, bi))
             ELSE push(<<sql[i]>>, next(1, f, bi))

RenderOk(sql) ==
    [kind |-> "Ok", sql |-> sql, error |-> "none", placeholders |-> 0, binds |-> 0]

RenderErr(error, placeholders, binds) ==
    [kind |-> "Err", sql |-> << >>, error |-> error,
     placeholders |-> placeholders, binds |-> binds]

RenderPanic ==
    [kind |-> "panic", sql |-> << >>, error |-> "none", placeholders |-> 0, binds |-> 0]

rewrite_debugquery_to_sql(input, dialect) ==
    LET parts == split_once(input, BindsMarker) IN
    IF parts = {} THEN RenderErr("MissingBindsTrailer", 0, 0)
    ELSE LET sql_part == (CHOOSE p \in parts : TRUE)[1]
             binds_part == (CHOOSE p \in parts : TRUE)[2]
             parsed == parse_binds(binds_part)
         IN  IF parsed = {} THEN RenderErr("MalformedBinds", 0, 0)
             ELSE LET binds == CHOOSE b \in parsed : TRUE
                      expected == count_placeholders(sql_part, dialect)
                  IN  IF expected # Len(binds)
                      THEN RenderErr("PlaceholderCountMismatch", expected, Len(binds))
                      ELSE LET r == rewrite_from(sql_part, 1, NoFlags, 0, binds, dialect)
                           IN  IF r.panic THEN RenderPanic
                               ELSE RenderOk(trim_end(r.out))

(***************************************************************************)
(* The system: two nodes on one topic.                                     *)
(***************************************************************************)
Nodes == {"A", "B"}

\* with_node_id: two ids with the same first byte.
NodeIdOf(n) == IF n = "A" THEN MkId(7, 1) ELSE MkId(7, 2)

\* mpsc::channel::<SyncOperation>(256)
QueueCap == 256

\* Wall-clock readings a stamp may see, in any order (the clock may regress).
WallReadings == {17, 33}

MaxWrites == 2
MaxDups == 1
MaxLocalWrites == 2
MaxEngineWrites == 1
MaxMdnsEvents == 2
MaxRebuildWrites == 2
MaxSqlLen == 4
MaxRegisterCalls == 4
MaxEntries == 2
MaxSchemaWrites == 2
MaxFaultWrites == 2
MaxReplayWrites == 2
MaxSequentialWrites == 3
MaxCompactions == 1

\* Peer ids that mdns may report.
PeerIds == {"p1", "p2"}

Vals == {<<"a">>, <<"b">>}

\* Statements the application issues through the wrapper.
Statements ==
    { InsertReturningSql(Quoted(DQ, Tasks), U1, <<"a">>),
      InsertSql(Quoted(BT, Tasks), U2, <<"a">>),
      UpdateSql(Quoted(DQ, Tasks), U1, <<"b">>),
      DeleteLowerSql(Tasks, U1),
      InsertSql(Quoted(DQ, Cache), U1, <<"a">>),
      InsertSql(Internal, U1, <<"a">>),
      SelectSql(Quoted(DQ, Tasks)) }

VARIABLES
    store,      \* per node: the application's tables, table -> row -> value
    registry,   \* per node: TableRegistry.tables, table name -> TableMeta
    hlc,        \* per node: uhlc last_time
    inflight,   \* per node: wrapper calls whose inner execute has returned Ok
    spawned,    \* per node: bag of ops held by tasks spawned in dispatch_sync
    queue,      \* per node: the sync_tx / sync_rx channel
    log,        \* per node: _wavesync_log
    net,        \* per node: gossip messages on their way to the node
    applying,   \* per node: bag of apply_remote_op tasks past the LWW check,
                \* each with its op, its position and whether its lookup was Ok
    notes,      \* per node: bag of ChangeNotifications sent on change_tx
    stamps,     \* per node: the (hlc_time, hlc_counter) pairs in stamping order
    received,   \* per node: the ops generated here or delivered here
    dropped,    \* per node: the ops the LWW check dropped, with what it compared
    writes,     \* the wrapper calls made so far, with their outcome
    nextOpId,   \* source of op_ids
    dups,       \* gossip messages delivered a second time so far
    cmp,        \* the comparator's inputs and its answer
    peers,              \* per node: EngineRunner.peers (the known peer ids)
    pending_full_sync,  \* per node: run()'s pending_full_sync
    full_sync_delay,    \* per node: seconds left on run()'s full_sync_delay
    published,  \* per node: the gossipsub.publish calls so far, with result
    link_ok,    \* per node: whether gossipsub.publish returns Ok at present
    engine,     \* per node: the state of the task spawned by start_engine
    mdns_events,\* mdns events handled so far, what the last one was, and
                \* whether it re-armed a pending timer
    wrapper,    \* per node: "none", "built" or "dropped" (the WaveSyncDb value)
    has_log,    \* per node: whether the store holds the table _wavesync_log
    db_ok,      \* per node: whether statements on _wavesync_log and remote
                \* statements on the store return Ok at present
    render,     \* rewrite_debugquery_to_sql: its input and its result
    entries,    \* per node: SchemaBuilder.entries, and what sync() returned
    reg_calls,  \* the TableRegistry::register calls made so far
    since,      \* get_ops_since: its argument and its result
    compacted   \* compact: the calls so far, the last cut-off, the ops deleted

engineVars == <<peers, pending_full_sync, full_sync_delay, published, link_ok,
                engine, mdns_events>>

lifeVars == <<wrapper, has_log>>

sideVars == <<db_ok, render, entries, reg_calls, since, compacted>>

vars == <<store, registry, hlc, inflight, spawned, queue, log, net, applying,
          notes, stamps, received, dropped, writes, nextOpId, dups, cmp,
          engineVars, lifeVars, sideVars>>

nodeVars == <<store, registry, hlc, inflight, spawned, queue, log, net,
              applying, notes, stamps, received, dropped, writes, nextOpId, dups,
              engineVars, lifeVars>>

\* tokio::time::sleep(Duration::from_secs(86400)) and from_secs(2)
DayDelay == 86400
FullSyncDelay == 2

EmptyStore == [t \in StoreTables |-> [r \in Rows |-> NoRow]]

NoMdnsEvents == [count |-> 0, last |-> "none", rearmed |-> FALSE]

NoCmp == [remote |-> {}, local |-> {}, result |-> "none", reverse |-> "none"]

\* After build() and schema().register(tasks).sync() on both nodes.
InitNodes ==
    /\ store = [n \in Nodes |-> EmptyStore]
    /\ registry = [n \in Nodes |-> RegistryOf({Tasks})]
    /\ hlc = [n \in Nodes |-> 0]
    /\ inflight = [n \in Nodes |-> {}]
    /\ spawned = [n \in Nodes |-> EmptyBag]
    /\ queue = [n \in Nodes |-> << >>]
    /\ log = [n \in Nodes |-> EmptyBag]
    /\ net = [n \in Nodes |-> {}]
    /\ applying = [n \in Nodes |-> EmptyBag]
    /\ notes = [n \in Nodes |-> EmptyBag]
    /\ stamps = [n \in Nodes |-> << >>]
    /\ received = [n \in Nodes |-> {}]
    /\ dropped = [n \in Nodes |-> {}]
    /\ writes = << >>
    /\ nextOpId = 1
    /\ dups = 0
    /\ peers = [n \in Nodes |-> {}]
    /\ pending_full_sync = [n \in Nodes |-> FALSE]
    /\ full_sync_delay = [n \in Nodes |-> DayDelay]
    /\ published = [n \in Nodes |-> << >>]
    /\ link_ok = [n \in Nodes |-> TRUE]
    /\ engine = [n \in Nodes |-> "running"]
    /\ mdns_events = NoMdnsEvents
    /\ wrapper = [n \in Nodes |-> "built"]
    /\ has_log = [n \in Nodes |-> TRUE]

NotRendered ==
    [kind |-> "none", sql |-> << >>, error |-> "none", placeholders |-> 0, binds |-> 0]

NoRender == [sql |-> << >>, binds |-> << >>, input |-> << >>, dialect |-> "none",
             result |-> NotRendered]

NoEntries == [list |-> << >>, result |-> "none", applied |-> << >>]

NoSince == [called |-> FALSE, since_hlc |-> 0, result |-> << >>]

NoCompact == [count |-> 0, before_hlc |-> 0, removed |-> {}]

InitSide ==
    /\ db_ok = [n \in Nodes |-> TRUE]
    /\ render = NoRender
    /\ entries = [n \in Nodes |-> NoEntries]
    /\ reg_calls = << >>
    /\ since = NoSince
    /\ compacted = NoCompact

Init == InitNodes /\ cmp = NoCmp /\ InitSide

\* execute_raw that goes on to classify_write and dispatch_sync after an Err
\* of the inner connection as well.
execute_raw_dispatch_on_err(n, sql, max) ==
    /\ wrapper[n] = "built"
    /\ Len(writes) < max
    /\ LET result == SqlExecute(store[n], sql)
           wid == Len(writes) + 1
       IN  /\ store' = [store EXCEPT ![n] = result.store]
           /\ inflight' = [inflight EXCEPT ![n] = @ \cup {[wid |-> wid, sql |-> sql]}]
           /\ writes' = Append(writes, [node |-> n, sql |-> sql,
                                        outcome |-> IF result.ok THEN "committed"
                                                    ELSE "error",
                                        registered |-> FALSE])
    /\ UNCHANGED <<registry, hlc, spawned, queue, log, net, applying, notes,
                   stamps, received, dropped, nextOpId, dups, cmp>>
    /\ UNCHANGED <<engineVars, lifeVars, sideVars>>

\* dispatch_sync that awaits sync_tx.send(op) itself instead of spawning a
\* task for it.
dispatch_sync_awaits_send(n, w) ==
    /\ Len(queue[n]) < QueueCap
    /\ w \in inflight[n]
    /\ inflight' = [inflight EXCEPT ![n] = @ \ {w}]
    /\ LET c == classify_write(w.sql) IN
       IF c = {}
       THEN /\ writes' = [writes EXCEPT ![w.wid].outcome = "not_a_write"]
            /\ UNCHANGED <<hlc, spawned, stamps, received, nextOpId>>
       ELSE LET cw == CHOOSE x \in c : TRUE IN
            IF is_reserved(cw.table)
            THEN /\ writes' = [writes EXCEPT
                                 ![w.wid].outcome = "reserved",
                                 ![w.wid].registered = cw.table \in DOMAIN registry[n]]
                 /\ UNCHANGED <<hlc, spawned, stamps, received, nextOpId>>
            ELSE IF ~is_registered(registry[n], cw.table)
            THEN /\ writes' = [writes EXCEPT ![w.wid].outcome = "unregistered"]
                 /\ UNCHANGED <<hlc, spawned, stamps, received, nextOpId>>
            ELSE \E now \in WallReadings :
                   LET ts == next_hlc(hlc[n], now, NodeIdOf(n))
                       op == SyncOperation(nextOpId, ts.hlc_time, ts.hlc_counter,
                                           NodeIdOf(n), cw.table, cw.kind,
                                           EmptyString, w.sql)
                   IN  /\ hlc' = [hlc EXCEPT ![n] = ts.last_time]
                       /\ stamps' = [stamps EXCEPT
                             ![n] = Append(@, <<ts.hlc_time, ts.hlc_counter>>)]
                       /\ spawned' = [spawned EXCEPT ![n] = @ (+) SetToBag({op})]
                       /\ received' = [received EXCEPT ![n] = @ \cup {op}]
                       /\ nextOpId' = nextOpId + 1
                       /\ writes' = [writes EXCEPT
                                       ![w.wid].outcome = "dispatched",
                                       ![w.wid].registered = TRUE]
    /\ UNCHANGED <<store, registry, queue, log, net, applying, notes, dropped,
                   dups, cmp>>
    /\ UNCHANGED <<engineVars, lifeVars, sideVars>>

\* handle_gossipsub that notifies the change listeners of a dropped op.
handle_gossipsub_notifies_drop(n, op, keep) ==
    /\ op \in net[n]
    /\ IF keep
       THEN dups < MaxDups /\ dups' = dups + 1 /\ net' = net
       ELSE dups' = dups /\ net' = [net EXCEPT ![n] = @ \ {op}]
    /\ received' = [received EXCEPT ![n] = @ \cup {op}]
    /\ \E local_latest \in get_latest_for_row(log[n], op.table, op.primary_key) :
         IF ~should_apply(op, local_latest)
         THEN /\ dropped' = [dropped EXCEPT
                               ![n] = @ \cup {[op |-> op, latest |-> local_latest]}]
              /\ applying' = applying
              /\ notes' = [notes EXCEPT ![n] = @ (+) SetToBag(
                    {ChangeNotification(op.table, op.kind, op.primary_key)})]
         ELSE /\ dropped' = dropped
              /\ notes' = notes
              /\ applying' = [applying EXCEPT
                                ![n] = @ (+) SetToBag(
                                   {[op |-> op, pc |-> "exec", lookup_ok |-> db_ok[n]]})]
    /\ UNCHANGED <<store, registry, hlc, inflight, spawned, queue, log,
                   stamps, writes, nextOpId, cmp>>
    /\ UNCHANGED <<engineVars, lifeVars, sideVars>>

(***************************************************************************)
(* connection.rs: execute_raw / execute_unprepared / query_one_raw /       *)
(* query_all_raw.  First the inner connection executes the statement; an   *)
(* Err returns to the caller there.                                        *)
(***************************************************************************)
execute_raw(n, sql, max) ==
    /\ wrapper[n] = "built"
    /\ Len(writes) < max
    /\ LET result == SqlExecute(store[n], sql)
           wid == Len(writes) + 1
       IN  /\ store' = [store EXCEPT ![n] = result.store]
           /\ IF result.ok
              THEN /\ inflight' = [inflight EXCEPT
                                     ![n] = @ \cup {[wid |-> wid, sql |-> sql]}]
                   /\ writes' = Append(writes, [node |-> n, sql |-> sql,
                                                outcome |-> "committed",
                                                registered |-> FALSE])
              ELSE /\ inflight' = inflight
                   /\ writes' = Append(writes, [node |-> n, sql |-> sql,
                                                outcome |-> "error",
                                                registered |-> FALSE])
    /\ UNCHANGED <<registry, hlc, spawned, queue, log, net, applying, notes,
                   stamps, received, dropped, nextOpId, dups, cmp>>
    /\ UNCHANGED <<engineVars, lifeVars, sideVars>>

\* Then classify_write and dispatch_sync: the reserved-prefix and registry
\* checks, next_hlc, the SyncOperation, tokio::spawn of the sending task.
dispatch_sync(n, w) ==
    /\ w \in inflight[n]
    /\ inflight' = [inflight EXCEPT ![n] = @ \ {w}]
    /\ LET c == classify_write(w.sql) IN
       IF c = {}
       THEN /\ writes' = [writes EXCEPT ![w.wid].outcome = "not_a_write"]
            /\ UNCHANGED <<hlc, spawned, stamps, received, nextOpId>>
       ELSE LET cw == CHOOSE x \in c : TRUE IN
            IF is_reserved(cw.table)
            THEN /\ writes' = [writes EXCEPT
                                 ![w.wid].outcome = "reserved",
                                 ![w.wid].registered = cw.table \in DOMAIN registry[n]]
                 /\ UNCHANGED <<hlc, spawned, stamps, received, nextOpId>>
            ELSE IF ~is_registered(registry[n], cw.table)
            THEN /\ writes' = [writes EXCEPT ![w.wid].outcome = "unregistered"]
                 /\ UNCHANGED <<hlc, spawned, stamps, received, nextOpId>>
            ELSE \E now \in WallReadings :
                   LET ts == next_hlc(hlc[n], now, NodeIdOf(n))
                       op == SyncOperation(nextOpId, ts.hlc_time, ts.hlc_counter,
                                           NodeIdOf(n), cw.table, cw.kind,
                                           EmptyString, w.sql)
                   IN  /\ hlc' = [hlc EXCEPT ![n] = ts.last_time]
                       /\ stamps' = [stamps EXCEPT
                             ![n] = Append(@, <<ts.hlc_time, ts.hlc_counter>>)]
                       /\ spawned' = [spawned EXCEPT ![n] = @ (+) SetToBag({op})]
                       /\ received' = [received EXCEPT ![n] = @ \cup {op}]
                       /\ nextOpId' = nextOpId + 1
                       /\ writes' = [writes EXCEPT
                                       ![w.wid].outcome = "dispatched",
                                       ![w.wid].registered = TRUE]
    /\ UNCHANGED <<store, registry, queue, log, net, applying, notes, dropped,
                   dups, cmp>>
    /\ UNCHANGED <<engineVars, lifeVars, sideVars>>

\* The spawned task: sync_tx.send(op).await, then change_tx.send(..).
spawned_send(n, op) ==
    /\ BagIn(op, spawned[n])
    /\ Len(queue[n]) < QueueCap
    /\ spawned' = [spawned EXCEPT ![n] = @ (-) SetToBag({op})]
    /\ queue' = [queue EXCEPT ![n] = Append(@, op)]
    /\ notes' = [notes EXCEPT ![n] =
                   @ (+) SetToBag({ChangeNotification(op.table, op.kind, EmptyString)})]
    /\ UNCHANGED <<store, registry, hlc, inflight, log, net, applying, stamps,
                   received, dropped, writes, nextOpId, dups, cmp>>
    /\ UNCHANGED <<engineVars, lifeVars, sideVars>>

\* WaveSyncDb::register_table
register_table(n, meta) ==
    /\ registry' = [registry EXCEPT ![n] = register(@, meta)]
    /\ UNCHANGED <<store, hlc, inflight, spawned, queue, log, net, applying,
                   notes, stamps, received, dropped, writes, nextOpId, dups, cmp>>
    /\ UNCHANGED <<engineVars, lifeVars, sideVars>>

(***************************************************************************)
(* engine.rs                                                               *)
(***************************************************************************)
\* EngineRunner::handle_local_op: log the op, publish it on the topic.
\* gossipsub.publish(topic, data): Ok hands the message to the other nodes
\* of the topic, Err hands it to nobody; either way the call is on record.
publish(sent, op, ok) == Append(sent, [op |-> op, ok |-> ok])

deliver(nt, n, ops) ==
    [m \in Nodes |-> IF m = n THEN nt[m] ELSE nt[m] \cup ops]

\* db_ok[n]: whether the statements the engine task of n issues on its
\* DatabaseConnection return Ok at this moment.  handle_local_op: the
\* Err of insert_op is logged and the function goes on to publish.  Below,
\* first: a handle_local_op that returns on the Err of insert_op.
handle_local_op_returns_on_log_error(n) ==
    /\ engine[n] = "running"
    /\ queue[n] # << >>
    /\ LET op == Head(queue[n]) IN
       /\ queue' = [queue EXCEPT ![n] = Tail(@)]
       /\ log' = [log EXCEPT ![n] = IF db_ok[n] THEN insert_op(@, op) ELSE @]
       /\ published' = [published EXCEPT
                          ![n] = IF db_ok[n] THEN publish(@, op, link_ok[n]) ELSE @]
       /\ net' = IF db_ok[n] /\ link_ok[n] THEN deliver(net, n, {op}) ELSE net
    /\ UNCHANGED <<store, registry, hlc, inflight, spawned, applying, notes,
                   stamps, received, dropped, writes, nextOpId, dups, cmp>>
    /\ UNCHANGED <<peers, pending_full_sync, full_sync_delay, link_ok, engine,
                   mdns_events, lifeVars, sideVars>>

handle_local_op(n) ==
    /\ engine[n] = "running"
    /\ queue[n] # << >>
    /\ LET op == Head(queue[n]) IN
       /\ queue' = [queue EXCEPT ![n] = Tail(@)]
       /\ log' = [log EXCEPT ![n] = IF db_ok[n] THEN insert_op(@, op) ELSE @]
       /\ published' = [published EXCEPT ![n] = publish(@, op, link_ok[n])]
       /\ net' = IF link_ok[n] THEN deliver(net, n, {op}) ELSE net
    /\ UNCHANGED <<store, registry, hlc, inflight, spawned, applying, notes,
                   stamps, received, dropped, writes, nextOpId, dups, cmp>>
    /\ UNCHANGED <<peers, pending_full_sync, full_sync_delay, link_ok, engine,
                   mdns_events, lifeVars, sideVars>>

\* The lookup of apply_remote_op, get_latest_for_row(..).await.ok().flatten():
\* an Err of the query reads as "no logged op of this row".
lookup_latest(n, op) ==
    IF db_ok[n]
    THEN get_latest_for_row(log[n], op.table, op.primary_key)
    ELSE {{}}

\* handle_gossipsub and the head of apply_remote_op: the message is
\* decoded, the task looks up the latest logged op of (table, primary_key)
\* and takes the LWW decision.  keep: gossip delivers the message once more.
handle_gossipsub(n, op, keep) ==
    /\ op \in net[n]
    /\ IF keep
       THEN dups < MaxDups /\ dups' = dups + 1 /\ net' = net
       ELSE dups' = dups /\ net' = [net EXCEPT ![n] = @ \ {op}]
    /\ received' = [received EXCEPT ![n] = @ \cup {op}]
    /\ \E local_latest \in lookup_latest(n, op) :
         IF ~should_apply(op, local_latest)
         THEN /\ dropped' = [dropped EXCEPT
                               ![n] = @ \cup {[op |-> op, latest |-> local_latest]}]
              /\ applying' = applying
         ELSE /\ dropped' = dropped
              /\ applying' = [applying EXCEPT
                                ![n] = @ (+) SetToBag(
                                   {[op |-> op, pc |-> "exec", lookup_ok |-> db_ok[n]]})]
    /\ UNCHANGED <<store, registry, hlc, inflight, spawned, queue, log, notes,
                   stamps, writes, nextOpId, cmp>>
    /\ UNCHANGED <<engineVars, lifeVars, sideVars>>

\* apply_remote_op: execute the rewritten statement on the local store; an
\* Err ends the task.  Below, first: a task that goes on after the Err.
execute_remote(n, op) ==
    IF db_ok[n]
    THEN SqlExecute(store[n], final_sql(op))
    ELSE [ok |-> FALSE, store |-> store[n]]

apply_remote_exec_logs_on_err(n, t) ==
    /\ BagIn(t, applying[n])
    /\ t.pc = "exec"
    /\ LET result == execute_remote(n, t.op) IN
       /\ store' = [store EXCEPT ![n] = result.store]
       /\ applying' = [applying EXCEPT ![n] =
             (@ (-) SetToBag({t})) (+) SetToBag({[t EXCEPT !.pc = "log"]})]
    /\ UNCHANGED <<registry, hlc, inflight, spawned, queue, log, net, notes,
                   stamps, received, dropped, writes, nextOpId, dups, cmp>>
    /\ UNCHANGED <<engineVars, lifeVars, sideVars>>

\* A task that executes the statement on the wrapper instead of the inner
\* connection handed to start_engine.
apply_remote_exec_through_wrapper(n, t) ==
    /\ BagIn(t, applying[n])
    /\ t.pc = "exec"
    /\ LET result == execute_remote(n, t.op) IN
       /\ store' = [store EXCEPT ![n] = result.store]
       /\ applying' = [applying EXCEPT ![n] =
             IF result.ok
             THEN (@ (-) SetToBag({t})) (+) SetToBag({[t EXCEPT !.pc = "log"]})
             ELSE @ (-) SetToBag({t})]
    /\ inflight' = [inflight EXCEPT
                      ![n] = @ \cup {[wid |-> 0, sql |-> final_sql(t.op)]}]
    /\ UNCHANGED <<registry, hlc, spawned, queue, log, net, notes,
                   stamps, received, dropped, writes, nextOpId, dups, cmp>>
    /\ UNCHANGED <<engineVars, lifeVars, sideVars>>


apply_remote_exec(n, t) ==
    /\ BagIn(t, applying[n])
    /\ t.pc = "exec"
    /\ LET result == execute_remote(n, t.op) IN
       /\ store' = [store EXCEPT ![n] = result.store]
       /\ applying' = [applying EXCEPT ![n] =
             IF result.ok
             THEN (@ (-) SetToBag({t})) (+) SetToBag({[t EXCEPT !.pc = "log"]})
             ELSE @ (-) SetToBag({t})]
    /\ UNCHANGED <<registry, hlc, inflight, spawned, queue, log, net, notes,
                   stamps, received, dropped, writes, nextOpId, dups, cmp>>
    /\ UNCHANGED <<engineVars, lifeVars, sideVars>>

\* apply_remote_op: log the op (an Err of insert_op is only logged), notify
\* the change listeners.
apply_remote_log(n, t) ==
    /\ BagIn(t, applying[n])
    /\ t.pc = "log"
    /\ applying' = [applying EXCEPT ![n] = @ (-) SetToBag({t})]
    /\ log' = [log EXCEPT ![n] = IF db_ok[n] THEN insert_op(@, t.op) ELSE @]
    /\ notes' = [notes EXCEPT ![n] = @ (+) SetToBag(
                   {ChangeNotification(t.op.table, t.op.kind, t.op.primary_key)})]
    /\ UNCHANGED <<store, registry, hlc, inflight, spawned, queue, net, stamps,
                   received, dropped, writes, nextOpId, dups, cmp>>
    /\ UNCHANGED <<engineVars, lifeVars, sideVars>>

\* handle_mdns: whether the Discovered list names a peer the map lacks;
\* below it, the same test without the lookup in the map.
new_peer_found_any(known, list) == list # {}

new_peer_found(known, list) == \E peer_id \in list : peer_id \notin known

\* The swarm branch of run() on an mdns event: handle_mdns updates the peer
\* map, and a new peer sets pending_full_sync and re-arms full_sync_delay.
\* Below, first: a loop that leaves the deadline of a pending timer alone.
handle_mdns_keeps_deadline(n, kind, list) ==
    /\ engine[n] = "running"
    /\ mdns_events.count < MaxMdnsEvents
    /\ mdns_events' =
         [count |-> mdns_events.count + 1,
          last |-> IF kind = "Expired" THEN "expired"
                   ELSE IF list \subseteq peers[n] THEN "known" ELSE "new",
          rearmed |-> /\ kind = "Discovered"
                      /\ new_peer_found(peers[n], list)
                      /\ pending_full_sync[n]]
    /\ IF kind = "Discovered"
       THEN /\ peers' = [peers EXCEPT ![n] = @ \cup list]
            /\ IF new_peer_found(peers[n], list)
               THEN /\ pending_full_sync' = [pending_full_sync EXCEPT ![n] = TRUE]
                    /\ full_sync_delay' = [full_sync_delay EXCEPT
                          ![n] = IF pending_full_sync[n] THEN @ ELSE FullSyncDelay]
               ELSE UNCHANGED <<pending_full_sync, full_sync_delay>>
       ELSE /\ peers' = [peers EXCEPT ![n] = @ \ list]
            /\ UNCHANGED <<pending_full_sync, full_sync_delay>>
    /\ UNCHANGED <<store, registry, hlc, inflight, spawned, queue, log, net,
                   applying, notes, stamps, received, dropped, writes, nextOpId,
                   dups, cmp, published, link_ok, engine, lifeVars, sideVars>>

handle_mdns(n, kind, list) ==
    /\ engine[n] = "running"
    /\ mdns_events.count < MaxMdnsEvents
    /\ mdns_events' =
         [count |-> mdns_events.count + 1,
          last |-> IF kind = "Expired" THEN "expired"
                   ELSE IF list \subseteq peers[n] THEN "known" ELSE "new",
          rearmed |-> /\ kind = "Discovered"
                      /\ new_peer_found(peers[n], list)
                      /\ pending_full_sync[n]]
    /\ IF kind = "Discovered"
       THEN /\ peers' = [peers EXCEPT ![n] = @ \cup list]
            /\ IF new_peer_found(peers[n], list)
               THEN /\ pending_full_sync' = [pending_full_sync EXCEPT ![n] = TRUE]
                    /\ full_sync_delay' = [full_sync_delay EXCEPT ![n] = FullSyncDelay]
               ELSE UNCHANGED <<pending_full_sync, full_sync_delay>>
       ELSE /\ peers' = [peers EXCEPT ![n] = @ \ list]
            /\ UNCHANGED <<pending_full_sync, full_sync_delay>>
    /\ UNCHANGED <<store, registry, hlc, inflight, spawned, queue, log, net,
                   applying, notes, stamps, received, dropped, writes, nextOpId,
                   dups, cmp, published, link_ok, engine, lifeVars, sideVars>>

\* One second passes on the armed timer.  While pending_full_sync is false
\* the timer is not polled and its value is overwritten before it is read.
full_sync_tick(n) ==
    /\ engine[n] = "running"
    /\ pending_full_sync[n]
    /\ full_sync_delay[n] > 0
    /\ full_sync_delay' = [full_sync_delay EXCEPT ![n] = @ - 1]
    /\ UNCHANGED <<store, registry, hlc, inflight, spawned, queue, log, net,
                   applying, notes, stamps, received, dropped, writes, nextOpId,
                   dups, cmp, peers, pending_full_sync, published, link_ok,
                   engine, mdns_events, lifeVars, sideVars>>

\* op.op_id = Uuid::new_v4() for the i-th op of the replay.
Refreshed(ops, first_id) ==
    [i \in DOMAIN ops |-> [ops[i] EXCEPT !.op_id = first_id + i - 1]]

RECURSIVE publish_all(_, _, _)
publish_all(sent, ops, ok) ==
    IF ops = << >> THEN sent
    ELSE publish_all(publish(sent, Head(ops), ok), Tail(ops), ok)

\* The timer branch of run(): pending_full_sync = false, publish_full_state.
\* The head of publish_full_state: an Err of get_ops_since returns with
\* nothing published.
read_log(n) == IF db_ok[n] THEN get_ops_since(log[n], 0) ELSE {<< >>}

publish_full_state(n) ==
    /\ engine[n] = "running"
    /\ pending_full_sync[n]
    /\ full_sync_delay[n] = 0
    /\ pending_full_sync' = [pending_full_sync EXCEPT ![n] = FALSE]
    /\ \E ops \in read_log(n) :
         LET fresh == Refreshed(ops, nextOpId) IN
         /\ published' = [published EXCEPT ![n] = publish_all(@, fresh, link_ok[n])]
         /\ net' = IF link_ok[n]
                   THEN deliver(net, n, {fresh[i] : i \in DOMAIN fresh})
                   ELSE net
         /\ nextOpId' = nextOpId + Len(ops)
    /\ UNCHANGED <<store, registry, hlc, inflight, spawned, queue, log,
                   applying, notes, stamps, received, dropped, writes, dups, cmp,
                   peers, full_sync_delay, link_ok, engine, mdns_events, lifeVars, sideVars>>

\* The store of n starts or stops answering the engine's statements with Ok.
db_change(n) ==
    /\ db_ok' = [db_ok EXCEPT ![n] = ~@]
    /\ UNCHANGED <<nodeVars, cmp, render, entries, reg_calls, since, compacted>>

\* The transport gains or loses the ability to take a message.
link_change(n) ==
    /\ link_ok' = [link_ok EXCEPT ![n] = ~@]
    /\ UNCHANGED <<store, registry, hlc, inflight, spawned, queue, log, net,
                   applying, notes, stamps, received, dropped, writes, nextOpId,
                   dups, cmp, peers, pending_full_sync, full_sync_delay,
                   published, engine, mdns_events, lifeVars, sideVars>>

\* The application drops the WaveSyncDb value; no call of it is running.
drop_wrapper(n) ==
    /\ wrapper[n] = "built"
    /\ inflight[n] = {}
    /\ wrapper' = [wrapper EXCEPT ![n] = "dropped"]
    /\ UNCHANGED <<store, registry, hlc, inflight, spawned, queue, log, net,
                   applying, notes, stamps, received, dropped, writes, nextOpId,
                   dups, cmp, engineVars, has_log, sideVars>>

\* Every Sender of the local-op channel is gone: the wrapper's and the
\* clones moved into the tasks spawned by dispatch_sync.
ChannelClosed(n) == wrapper[n] = "dropped" /\ spawned[n] = EmptyBag

\* WaveSyncDbBuilder::build on the node's store: connect, a new clock, a new
\* channel, a new empty registry, create_log_table, start_engine.  It is
\* taken once the previous wrapper's channel is closed and drained.
build(n) ==
    /\ wrapper[n] # "built"
    /\ spawned[n] = EmptyBag /\ queue[n] = << >>
    /\ wrapper' = [wrapper EXCEPT ![n] = "built"]
    /\ hlc' = [hlc EXCEPT ![n] = 0]
    /\ registry' = [registry EXCEPT ![n] = EmptyRegistry]
    /\ log' = [log EXCEPT ![n] = create_log_table(has_log[n], @)]
    /\ has_log' = [has_log EXCEPT ![n] = TRUE]
    /\ engine' = [engine EXCEPT ![n] = "running"]
    /\ peers' = [peers EXCEPT ![n] = {}]
    /\ pending_full_sync' = [pending_full_sync EXCEPT ![n] = FALSE]
    /\ full_sync_delay' = [full_sync_delay EXCEPT ![n] = DayDelay]
    /\ UNCHANGED <<store, inflight, spawned, queue, net, applying, notes, stamps,
                   received, dropped, writes, nextOpId, dups, cmp, published,
                   link_ok, mdns_events, sideVars>>

Next ==
    \/ \E n \in Nodes, sql \in Statements : execute_raw(n, sql, MaxWrites)
    \/ \E n \in Nodes : \E w \in inflight[n] : dispatch_sync(n, w)
    \/ \E n \in Nodes : \E op \in BagToSet(spawned[n]) : spawned_send(n, op)
    \/ \E n \in Nodes : handle_local_op(n)
    \/ \E n \in Nodes : \E op \in net[n] : \E keep \in BOOLEAN :
          handle_gossipsub(n, op, keep)
    \/ \E n \in Nodes : \E t \in BagToSet(applying[n]) : apply_remote_exec(n, t)
    \/ \E n \in Nodes : \E t \in BagToSet(applying[n]) : apply_remote_log(n, t)

Spec == Init /\ [][Next]_vars

(***************************************************************************)
(* The wrapper alone: concurrent application writes and register_table    *)
(* calls on one node, with no engine running behind the queue.             *)
(***************************************************************************)
Registerable == {Cache, Internal}
WrapperNodes == {"A"}

NextIntercept ==
    \/ \E n \in WrapperNodes, sql \in Statements : execute_raw(n, sql, MaxLocalWrites)
    \/ \E n \in WrapperNodes : \E w \in inflight[n] : dispatch_sync(n, w)
    \/ \E n \in WrapperNodes : \E op \in BagToSet(spawned[n]) : spawned_send(n, op)
    \/ \E n \in WrapperNodes, t \in Registerable : register_table(n, EntityMeta(t))

SpecIntercept == Init /\ [][NextIntercept]_vars

(***************************************************************************)
(* One node's wrapper and engine, with mdns events, the anti-entropy timer *)
(* and a transport that may refuse a publish.  The wrapper's tasks and the *)
(* engine loop are scheduled fairly; the application, mdns and the         *)
(* transport owe nothing.                                                  *)
(***************************************************************************)
EngineStatements ==
    { InsertSql(Quoted(DQ, Tasks), U1, <<"a">>),
      UpdateSql(Quoted(DQ, Tasks), U1, <<"b">>),
      InsertSql(Tasks \o <<ColumnList>>, U2, <<"a">>) }

MdnsLists == (SUBSET PeerIds) \ {{}}

WrapperStep ==
    \/ \E n \in WrapperNodes : \E w \in inflight[n] : dispatch_sync(n, w)
    \/ \E n \in WrapperNodes : \E op \in BagToSet(spawned[n]) : spawned_send(n, op)

EngineStep ==
    \/ \E n \in WrapperNodes : handle_local_op(n)
    \/ \E n \in WrapperNodes : full_sync_tick(n)
    \/ \E n \in WrapperNodes : publish_full_state(n)

NextEngine ==
    \/ \E n \in WrapperNodes, sql \in EngineStatements :
          execute_raw(n, sql, MaxEngineWrites)
    \/ WrapperStep
    \/ EngineStep
    \/ \E n \in WrapperNodes, kind \in {"Discovered", "Expired"}, list \in MdnsLists :
          handle_mdns(n, kind, list)
    \/ \E n \in WrapperNodes : link_change(n)
    \/ \E n \in WrapperNodes : drop_wrapper(n)

SpecEngine ==
    Init /\ [][NextEngine]_vars /\ WF_vars(WrapperStep) /\ WF_vars(EngineStep)

(***************************************************************************)
(* A node that receives ops of a peer: node B with some of A's ops on     *)
(* their way to it, in any order and possibly twice.                      *)
(***************************************************************************)
ReceiverNodes == {"B"}

RemoteOps ==
    { SyncOperation(1, 16, 7, NodeIdOf("A"), Tasks, "Insert", EmptyString,
                    InsertSql(Quoted(DQ, Tasks), U1, <<"a">>)),
      SyncOperation(2, 17, 7, NodeIdOf("A"), Tasks, "Update", EmptyString,
                    UpdateSql(Quoted(DQ, Tasks), U1, <<"b">>)),
      SyncOperation(3, 18, 7, NodeIdOf("A"), Tasks, "Delete", EmptyString,
                    DeleteLowerSql(Tasks, U1)) }

InitApply ==
    /\ \E sent \in (SUBSET RemoteOps) \ {{}} :
         net = [n \in Nodes |-> IF n \in ReceiverNodes THEN sent ELSE {}]
    /\ store = [n \in Nodes |-> EmptyStore]
    /\ registry = [n \in Nodes |-> RegistryOf({Tasks})]
    /\ hlc = [n \in Nodes |-> 0]
    /\ inflight = [n \in Nodes |-> {}]
    /\ spawned = [n \in Nodes |-> EmptyBag]
    /\ queue = [n \in Nodes |-> << >>]
    /\ log = [n \in Nodes |-> EmptyBag]
    /\ applying = [n \in Nodes |-> EmptyBag]
    /\ notes = [n \in Nodes |-> EmptyBag]
    /\ stamps = [n \in Nodes |-> << >>]
    /\ received = [n \in Nodes |-> {}]
    /\ dropped = [n \in Nodes |-> {}]
    /\ writes = << >>
    /\ nextOpId = 4
    /\ dups = 0
    /\ cmp = NoCmp
    /\ InitSide
    /\ peers = [n \in Nodes |-> {}]
    /\ pending_full_sync = [n \in Nodes |-> FALSE]
    /\ full_sync_delay = [n \in Nodes |-> DayDelay]
    /\ published = [n \in Nodes |-> << >>]
    /\ link_ok = [n \in Nodes |-> TRUE]
    /\ engine = [n \in Nodes |-> "running"]
    /\ mdns_events = NoMdnsEvents
    /\ wrapper = [n \in Nodes |-> "built"]
    /\ has_log = [n \in Nodes |-> TRUE]

NextApply ==
    \/ \E n \in ReceiverNodes : \E op \in net[n] : \E keep \in BOOLEAN :
          handle_gossipsub(n, op, keep)
    \/ \E n \in ReceiverNodes : \E t \in BagToSet(applying[n]) : apply_remote_exec(n, t)
    \/ \E n \in ReceiverNodes : \E t \in BagToSet(applying[n]) : apply_remote_log(n, t)

SpecApply == InitApply /\ [][NextApply]_vars

(***************************************************************************)
(* The wrapper in front of a full queue: QueueCap updates of one row have  *)
(* been stamped, sent and notified, and the engine task has not taken any  *)
(* of them yet, so that a task spawned by dispatch_sync stays in its send. *)
(***************************************************************************)
BacklogSql == UpdateSql(Quoted(DQ, Tasks), U1, <<"b">>)

BacklogOp(i) ==
    SyncOperation(i, 15 + i, IdFirstByte(NodeIdOf("A")), NodeIdOf("A"), Tasks,
                  "Update", EmptyString, BacklogSql)

InitBacklog ==
    /\ queue = [n \in Nodes |-> IF n \in WrapperNodes
                                 THEN [i \in 1..QueueCap |-> BacklogOp(i)]
                                 ELSE << >>]
    /\ stamps = [n \in Nodes |-> IF n \in WrapperNodes
                                  THEN [i \in 1..QueueCap |->
                                          <<15 + i, IdFirstByte(NodeIdOf("A"))>>]
                                  ELSE << >>]
    /\ received = [n \in Nodes |-> IF n \in WrapperNodes
                                    THEN {BacklogOp(i) : i \in 1..QueueCap}
                                    ELSE {}]
    /\ notes = [n \in Nodes |-> IF n \in WrapperNodes
                THEN [x \in {ChangeNotification(Tasks, "Update", EmptyString)} |-> QueueCap]
                ELSE EmptyBag]
    /\ hlc = [n \in Nodes |-> IF n \in WrapperNodes THEN 15 + QueueCap ELSE 0]
    /\ nextOpId = QueueCap + 1
    /\ store = [n \in Nodes |-> EmptyStore]
    /\ registry = [n \in Nodes |-> RegistryOf({Tasks})]
    /\ inflight = [n \in Nodes |-> {}]
    /\ spawned = [n \in Nodes |-> EmptyBag]
    /\ log = [n \in Nodes |-> EmptyBag]
    /\ net = [n \in Nodes |-> {}]
    /\ applying = [n \in Nodes |-> EmptyBag]
    /\ dropped = [n \in Nodes |-> {}]
    /\ writes = << >>
    /\ dups = 0
    /\ cmp = NoCmp
    /\ InitSide
    /\ peers = [n \in Nodes |-> {}]
    /\ pending_full_sync = [n \in Nodes |-> FALSE]
    /\ full_sync_delay = [n \in Nodes |-> DayDelay]
    /\ published = [n \in Nodes |-> << >>]
    /\ link_ok = [n \in Nodes |-> TRUE]
    /\ engine = [n \in Nodes |-> "running"]
    /\ mdns_events = NoMdnsEvents
    /\ wrapper = [n \in Nodes |-> "built"]
    /\ has_log = [n \in Nodes |-> TRUE]

NextBacklog ==
    \/ \E n \in WrapperNodes, sql \in Statements : execute_raw(n, sql, MaxLocalWrites)
    \/ \E n \in WrapperNodes : \E w \in inflight[n] : dispatch_sync(n, w)

SpecBacklog == InitBacklog /\ [][NextBacklog]_vars

(***************************************************************************)
(* The life of the wrapper on one store: build, use, drop, build again.    *)
(***************************************************************************)
InitUnbuilt ==
    /\ wrapper = [n \in Nodes |-> "none"]
    /\ has_log = [n \in Nodes |-> FALSE]
    /\ engine = [n \in Nodes |-> "none"]
    /\ registry = [n \in Nodes |-> EmptyRegistry]
    /\ store = [n \in Nodes |-> EmptyStore]
    /\ hlc = [n \in Nodes |-> 0]
    /\ inflight = [n \in Nodes |-> {}]
    /\ spawned = [n \in Nodes |-> EmptyBag]
    /\ queue = [n \in Nodes |-> << >>]
    /\ log = [n \in Nodes |-> EmptyBag]
    /\ net = [n \in Nodes |-> {}]
    /\ applying = [n \in Nodes |-> EmptyBag]
    /\ notes = [n \in Nodes |-> EmptyBag]
    /\ stamps = [n \in Nodes |-> << >>]
    /\ received = [n \in Nodes |-> {}]
    /\ dropped = [n \in Nodes |-> {}]
    /\ writes = << >>
    /\ nextOpId = 1
    /\ dups = 0
    /\ cmp = NoCmp
    /\ InitSide
    /\ peers = [n \in Nodes |-> {}]
    /\ pending_full_sync = [n \in Nodes |-> FALSE]
    /\ full_sync_delay = [n \in Nodes |-> DayDelay]
    /\ published = [n \in Nodes |-> << >>]
    /\ link_ok = [n \in Nodes |-> TRUE]
    /\ mdns_events = NoMdnsEvents

NextRebuild ==
    \/ \E n \in WrapperNodes : build(n)
    \/ \E n \in WrapperNodes : wrapper[n] = "built" /\ register_table(n, EntityMeta(Tasks))
    \/ \E n \in WrapperNodes, sql \in EngineStatements :
          execute_raw(n, sql, MaxRebuildWrites)
    \/ \E n \in WrapperNodes : \E w \in inflight[n] : dispatch_sync(n, w)
    \/ \E n \in WrapperNodes : \E op \in BagToSet(spawned[n]) : spawned_send(n, op)
    \/ \E n \in WrapperNodes : handle_local_op(n)
    \/ \E n \in WrapperNodes : drop_wrapper(n)

SpecRebuild == InitUnbuilt /\ [][NextRebuild]_vars

(***************************************************************************)
(* The comparator alone: should_apply on every pair of ops of LwwOps, in   *)
(* both directions.                                                        *)
(***************************************************************************)
LwwOps ==
    { SyncOperation(id, time, counter, MkId(a, b), Tasks, "Update", <<"1">>,
                    UpdateSql(Tasks, <<"1">>, <<"a">>)) :
        id \in {1, 2}, time \in {100, 200}, counter \in {0, 3},
        a \in {3, 5}, b \in {3, 5} }

Answer(b) == IF b THEN "apply" ELSE "drop"

InitLWW ==
    /\ InitNodes
    /\ InitSide
    /\ cmp \in { [remote |-> {a}, local |-> l, result |-> "none", reverse |-> "none"] :
                   a \in LwwOps, l \in {{}} \cup {{b} : b \in LwwOps} }

compare ==
    /\ cmp.result = "none"
    /\ \E a \in cmp.remote :
         cmp' = [cmp EXCEPT
                   !.result = Answer(should_apply(a, cmp.local)),
                   !.reverse = IF cmp.local = {} THEN "none"
                               ELSE Answer(\E b \in cmp.local : should_apply(b, {a}))]
    /\ UNCHANGED <<nodeVars, sideVars>>

NextLWW == compare

SpecLWW == InitLWW /\ [][NextLWW]_vars

(***************************************************************************)
(* The renderer alone: rewrite_debugquery_to_sql on the DebugQuery text of *)
(* a statement and its bind list, as Diesel prints it:                     *)
(*   <sql> -- binds: [<bind>, <bind>]                                      *)
(***************************************************************************)
\* The pieces statements are put together from: a quote, a placeholder of
\* either style, a letter, a double-quoted and a backtick identifier, a
\* block and a line comment, and the string '-- binds:'.
SqlPieces ==
    { <<SQ>>, <<"?">>, <<"$", "1">>, <<"x">>, <<DQ, "?", DQ>>, <<BT, "$", "1", BT>>,
      <<"/", "*", "?", "*", "/">>, <<"-", "-", "?", NL>>,
      <<SQ>> \o BindsMarker \o <<SQ>> }

RECURSIVE Flatten(_)
Flatten(ps) == IF ps = << >> THEN << >> ELSE Head(ps) \o Flatten(Tail(ps))

SqlTexts ==
    { Flatten(ps) : ps \in UNION { [1..k -> SqlPieces] : k \in 0..MaxSqlLen } }

BindLists ==
    { << >>,
      <<Bind(<<"7">>, FALSE)>>,
      <<Bind(<<"7">>, FALSE), Bind(<<"x", SQ>>, TRUE)>> }

\* Debug of one bind and of the list.
RECURSIVE BindsText(_)
BindsText(bs) ==
    IF bs = << >> THEN << >>
    ELSE (IF Head(bs).was_quoted THEN <<DQ>> \o Head(bs).raw \o <<DQ>>
          ELSE Head(bs).raw)
         \o (IF Len(bs) > 1 THEN <<",", Space>> ELSE << >>)
         \o BindsText(Tail(bs))

DebugQuery(sql, bs) ==
    sql \o <<Space>> \o BindsMarker \o <<Space, "[">> \o BindsText(bs) \o <<"]">>

Dialects == {"SQLite", "PostgreSQL"}

InitRender ==
    /\ InitNodes
    /\ cmp = NoCmp
    /\ db_ok = [n \in Nodes |-> TRUE]
    /\ entries = [n \in Nodes |-> NoEntries]
    /\ reg_calls = << >>
    /\ since = NoSince
    /\ compacted = NoCompact
    /\ render \in { [sql |-> sql, binds |-> bs, input |-> DebugQuery(sql, bs),
                     dialect |-> d, result |-> NotRendered] :
                    sql \in SqlTexts, bs \in BindLists, d \in Dialects }

render_statement ==
    /\ render.result = NotRendered
    /\ render' = [render EXCEPT
                    !.result = rewrite_debugquery_to_sql(render.input, render.dialect)]
    /\ UNCHANGED <<nodeVars, cmp, db_ok, entries, reg_calls, since, compacted>>

NextRender == render_statement

SpecRender == InitRender /\ [][NextRender]_vars

(***************************************************************************)
(* The registry alone: TableRegistry::register calls with differing        *)
(* metadata on one node, after the registration of tasks.                  *)
(***************************************************************************)
RegisterMetas ==
    { EntityMeta(t) : t \in StoreTables }
      \cup { TableMeta(t, "uuid", <<"uuid">>) : t \in StoreTables }

InitRegistry ==
    /\ InitNodes
    /\ cmp = NoCmp
    /\ db_ok = [n \in Nodes |-> TRUE]
    /\ render = NoRender
    /\ entries = [n \in Nodes |-> NoEntries]
    /\ since = NoSince
    /\ compacted = NoCompact
    /\ reg_calls = <<EntityMeta(Tasks)>>

\* registry.register(meta), with the call recorded
register_call(n, meta) ==
    /\ Len(reg_calls) < MaxRegisterCalls
    /\ registry' = [registry EXCEPT ![n] = register(@, meta)]
    /\ reg_calls' = Append(reg_calls, meta)
    /\ UNCHANGED <<store, hlc, inflight, spawned, queue, log, net, applying,
                   notes, stamps, received, dropped, writes, nextOpId, dups, cmp,
                   engineVars, lifeVars, db_ok, render, entries, since, compacted>>

NextRegistry == \E n \in WrapperNodes, meta \in RegisterMetas : register_call(n, meta)

SpecRegistry == InitRegistry /\ [][NextRegistry]_vars

(***************************************************************************)
(* connection.rs: SchemaBuilder.  One builder per node on a store that has *)
(* no application table yet, manual register_table calls, and writes       *)
(* through the wrapper before and after sync().                            *)
(***************************************************************************)
CreateTableSql(t) ==
    << <<"CREATE">>, <<"TABLE">>, <<"IF">>, <<"NOT">>, <<"EXISTS">>, Quoted(DQ, t) >>

EntityEntry(create_sql, meta, synced) ==
    [create_sql |-> create_sql, meta |-> meta, synced |-> synced]

\* CREATE TABLE IF NOT EXISTS on the store
execute_create(st, sql) ==
    LET t == Unquote(sql[6]) IN
    [t2 \in DOMAIN st \cup {t} |->
        IF t2 \in DOMAIN st THEN st[t2] ELSE [r \in Rows |-> NoRow]]

\* The body of sync()'s loop after the CREATE, with the test of
\* entry.synced left out.
sync_entry_ignores_synced(tables, entry) == register(tables, entry.meta)

sync_entry(tables, entry) ==
    IF entry.synced THEN register(tables, entry.meta) ELSE tables

\* for entry in self.entries: the CREATE of entry fail_at returns Err (0: none).
RECURSIVE sync_from(_, _, _, _, _)
sync_from(st, tables, list, i, fail_at) ==
    IF i > Len(list) THEN [ok |-> TRUE, store |-> st, registry |-> tables]
    ELSE IF i = fail_at THEN [ok |-> FALSE, store |-> st, registry |-> tables]
    ELSE sync_from(execute_create(st, list[i].create_sql),
                   sync_entry(tables, list[i]), list, i + 1, fail_at)

SchemaTables == {Tasks, Cache}

SchemaStatements ==
    { InsertSql(Quoted(DQ, Tasks), U1, <<"a">>),
      InsertSql(Quoted(DQ, Cache), U1, <<"a">>) }

InitSchema ==
    /\ store = [n \in Nodes |-> [t \in {} |-> [r \in Rows |-> NoRow]]]
    /\ registry = [n \in Nodes |-> EmptyRegistry]
    /\ hlc = [n \in Nodes |-> 0]
    /\ inflight = [n \in Nodes |-> {}]
    /\ spawned = [n \in Nodes |-> EmptyBag]
    /\ queue = [n \in Nodes |-> << >>]
    /\ log = [n \in Nodes |-> EmptyBag]
    /\ net = [n \in Nodes |-> {}]
    /\ applying = [n \in Nodes |-> EmptyBag]
    /\ notes = [n \in Nodes |-> EmptyBag]
    /\ stamps = [n \in Nodes |-> << >>]
    /\ received = [n \in Nodes |-> {}]
    /\ dropped = [n \in Nodes |-> {}]
    /\ writes = << >>
    /\ nextOpId = 1
    /\ dups = 0
    /\ cmp = NoCmp
    /\ peers = [n \in Nodes |-> {}]
    /\ pending_full_sync = [n \in Nodes |-> FALSE]
    /\ full_sync_delay = [n \in Nodes |-> DayDelay]
    /\ published = [n \in Nodes |-> << >>]
    /\ link_ok = [n \in Nodes |-> TRUE]
    /\ engine = [n \in Nodes |-> "running"]
    /\ mdns_events = NoMdnsEvents
    /\ wrapper = [n \in Nodes |-> "built"]
    /\ has_log = [n \in Nodes |-> TRUE]
    /\ InitSide

\* SchemaBuilder::register / register_local: push_entity(synced)
push_entity(n, t, synced) ==
    /\ entries[n].result = "none"
    /\ Len(entries[n].list) < MaxEntries
    /\ entries' = [entries EXCEPT
                     ![n].list = Append(@, EntityEntry(CreateTableSql(t),
                                                       EntityMeta(t), synced))]
    /\ UNCHANGED <<nodeVars, cmp, db_ok, render, reg_calls, since, compacted>>

\* SchemaBuilder::sync
sync(n, fail_at) ==
    /\ entries[n].result = "none"
    /\ LET r == sync_from(store[n], registry[n], entries[n].list, 1, fail_at) IN
       /\ store' = [store EXCEPT ![n] = r.store]
       /\ registry' = [registry EXCEPT ![n] = r.registry]
       /\ entries' = [entries EXCEPT
                        ![n] = [list |-> << >>,
                                result |-> IF r.ok THEN "Ok" ELSE "Err",
                                applied |-> entries[n].list]]
    /\ UNCHANGED <<hlc, inflight, spawned, queue, log, net, applying, notes,
                   stamps, received, dropped, writes, nextOpId, dups, cmp,
                   engineVars, lifeVars, db_ok, render, reg_calls, since, compacted>>

NextSchema ==
    \/ \E n \in WrapperNodes, t \in SchemaTables, synced \in BOOLEAN :
          push_entity(n, t, synced)
    \/ \E n \in WrapperNodes : \E fail_at \in 0..Len(entries[n].list) : sync(n, fail_at)
    \/ \E n \in WrapperNodes :
          entries[n].result = "none" /\ register_table(n, EntityMeta(Tasks))
    \/ \E n \in WrapperNodes, sql \in SchemaStatements :
          execute_raw(n, sql, MaxSchemaWrites)
    \/ \E n \in WrapperNodes : \E w \in inflight[n] : dispatch_sync(n, w)
    \/ \E n \in WrapperNodes : \E op \in BagToSet(spawned[n]) : spawned_send(n, op)

SpecSchema == InitSchema /\ [][NextSchema]_vars

(***************************************************************************)
(* One node's wrapper and engine over a store that may answer the engine's *)
(* statements with an error, and a transport that may refuse a publish.    *)
(***************************************************************************)
NextLogFault ==
    \/ \E n \in WrapperNodes, sql \in EngineStatements :
          execute_raw(n, sql, MaxFaultWrites)
    \/ \E n \in WrapperNodes : \E w \in inflight[n] : dispatch_sync(n, w)
    \/ \E n \in WrapperNodes : \E op \in BagToSet(spawned[n]) : spawned_send(n, op)
    \/ \E n \in WrapperNodes : handle_local_op(n)
    \/ \E n \in WrapperNodes : db_change(n)
    \/ \E n \in WrapperNodes : link_change(n)

SpecLogFault == Init /\ [][NextLogFault]_vars

(***************************************************************************)
(* The receiving node over a store that may answer with an error.          *)
(***************************************************************************)
NextApplyFault ==
    \/ NextApply
    \/ \E n \in ReceiverNodes : db_change(n)

SpecApplyFault == InitApply /\ [][NextApplyFault]_vars

(***************************************************************************)
(* Two nodes that write the same row and exchange their ops; node B        *)
(* discovers a peer and replays its OpLog.                                 *)
(***************************************************************************)
ReplayStatements ==
    { InsertSql(Quoted(DQ, Tasks), U1, <<"a">>),
      UpdateSql(Quoted(DQ, Tasks), U1, <<"b">>) }

NextReplay ==
    \/ \E n \in Nodes, sql \in ReplayStatements : execute_raw(n, sql, MaxReplayWrites)
    \/ \E n \in Nodes : \E w \in inflight[n] : dispatch_sync(n, w)
    \/ \E n \in Nodes : \E op \in BagToSet(spawned[n]) : spawned_send(n, op)
    \/ \E n \in Nodes : handle_local_op(n)
    \/ \E n \in Nodes : \E op \in net[n] : handle_gossipsub(n, op, FALSE)
    \/ \E n \in Nodes : \E t \in BagToSet(applying[n]) : apply_remote_exec(n, t)
    \/ \E n \in Nodes : \E t \in BagToSet(applying[n]) : apply_remote_log(n, t)
    \/ \E n \in ReceiverNodes : handle_mdns(n, "Discovered", {"p1"})
    \/ \E n \in ReceiverNodes : full_sync_tick(n)
    \/ \E n \in ReceiverNodes : publish_full_state(n)

SpecReplay == Init /\ [][NextReplay]_vars

(***************************************************************************)
(* The receiving node with ops of a peer whose clock is at and beyond 2^63 *)
(* (NTP64 times from 2038 on), and a caller of get_ops_since.              *)
(***************************************************************************)
SinceOps ==
    { SyncOperation(1, 16, 7, NodeIdOf("A"), Tasks, "Insert", EmptyString,
                    InsertSql(Quoted(DQ, Tasks), U1, <<"a">>)),
      SyncOperation(2, U64Span \div 2, 7, NodeIdOf("A"), Tasks, "Update", EmptyString,
                    UpdateSql(Quoted(DQ, Tasks), U1, <<"b">>)),
      SyncOperation(3, U64Span - 1, 7, NodeIdOf("A"), Tasks, "Insert", EmptyString,
                    InsertSql(Quoted(DQ, Tasks), U2, <<"a">>)) }

SinceValues == {0, 16, (U64Span \div 2) - 1, U64Span \div 2, U64Span - 1}

InitSince ==
    /\ \E sent \in (SUBSET SinceOps) \ {{}} :
         net = [n \in Nodes |-> IF n \in ReceiverNodes THEN sent ELSE {}]
    /\ store = [n \in Nodes |-> EmptyStore]
    /\ registry = [n \in Nodes |-> RegistryOf({Tasks})]
    /\ hlc = [n \in Nodes |-> 0]
    /\ inflight = [n \in Nodes |-> {}]
    /\ spawned = [n \in Nodes |-> EmptyBag]
    /\ queue = [n \in Nodes |-> << >>]
    /\ log = [n \in Nodes |-> EmptyBag]
    /\ applying = [n \in Nodes |-> EmptyBag]
    /\ notes = [n \in Nodes |-> EmptyBag]
    /\ stamps = [n \in Nodes |-> << >>]
    /\ received = [n \in Nodes |-> {}]
    /\ dropped = [n \in Nodes |-> {}]
    /\ writes = << >>
    /\ nextOpId = 4
    /\ dups = 0
    /\ cmp = NoCmp
    /\ InitSide
    /\ peers = [n \in Nodes |-> {}]
    /\ pending_full_sync = [n \in Nodes |-> FALSE]
    /\ full_sync_delay = [n \in Nodes |-> DayDelay]
    /\ published = [n \in Nodes |-> << >>]
    /\ link_ok = [n \in Nodes |-> TRUE]
    /\ engine = [n \in Nodes |-> "running"]
    /\ mdns_events = NoMdnsEvents
    /\ wrapper = [n \in Nodes |-> "built"]
    /\ has_log = [n \in Nodes |-> TRUE]

\* A call of sync_log::get_ops_since on the store of n.
ops_since(n, since_hlc) ==
    /\ \E result \in get_ops_since(log[n], since_hlc) :
         since' = [called |-> TRUE, since_hlc |-> since_hlc, result |-> result]
    /\ UNCHANGED <<nodeVars, cmp, db_ok, render, entries, reg_calls, compacted>>

NextSince ==
    \/ \E n \in ReceiverNodes : \E op \in net[n] : handle_gossipsub(n, op, FALSE)
    \/ \E n \in ReceiverNodes : \E t \in BagToSet(applying[n]) : apply_remote_exec(n, t)
    \/ \E n \in ReceiverNodes : \E t \in BagToSet(applying[n]) : apply_remote_log(n, t)
    \/ \E n \in ReceiverNodes, since_hlc \in SinceValues : ops_since(n, since_hlc)

SpecSince == InitSince /\ [][NextSince]_vars

(***************************************************************************)
(* The receiving node with two inserts of one row by a peer on their way,  *)
(* each handled by an apply_remote_op task of its own.                     *)
(***************************************************************************)
RaceOps ==
    { SyncOperation(1, 16, 7, NodeIdOf("A"), Tasks, "Insert", EmptyString,
                    InsertSql(Quoted(DQ, Tasks), U1, <<"a">>)),
      SyncOperation(2, 17, 7, NodeIdOf("A"), Tasks, "Insert", EmptyString,
                    InsertSql(Quoted(DQ, Tasks), U1, <<"b">>)) }

\* A running engine on every node, nothing written yet, and the ops sent on
\* their way to the receiving nodes.
ReceiverInit(sent) ==
    /\ net = [n \in Nodes |-> IF n \in ReceiverNodes THEN sent ELSE {}]
    /\ store = [n \in Nodes |-> EmptyStore]
    /\ registry = [n \in Nodes |-> RegistryOf({Tasks})]
    /\ hlc = [n \in Nodes |-> 0]
    /\ inflight = [n \in Nodes |-> {}]
    /\ spawned = [n \in Nodes |-> EmptyBag]
    /\ queue = [n \in Nodes |-> << >>]
    /\ log = [n \in Nodes |-> EmptyBag]
    /\ applying = [n \in Nodes |-> EmptyBag]
    /\ notes = [n \in Nodes |-> EmptyBag]
    /\ stamps = [n \in Nodes |-> << >>]
    /\ received = [n \in Nodes |-> {}]
    /\ dropped = [n \in Nodes |-> {}]
    /\ writes = << >>
    /\ nextOpId = 4
    /\ dups = 0
    /\ cmp = NoCmp
    /\ InitSide
    /\ peers = [n \in Nodes |-> {}]
    /\ pending_full_sync = [n \in Nodes |-> FALSE]
    /\ full_sync_delay = [n \in Nodes |-> DayDelay]
    /\ published = [n \in Nodes |-> << >>]
    /\ link_ok = [n \in Nodes |-> TRUE]
    /\ engine = [n \in Nodes |-> "running"]
    /\ mdns_events = NoMdnsEvents
    /\ wrapper = [n \in Nodes |-> "built"]
    /\ has_log = [n \in Nodes |-> TRUE]

InitRace == \E sent \in (SUBSET RaceOps) \ {{}} : ReceiverInit(sent)

SpecRace == InitRace /\ [][NextApply]_vars

(***************************************************************************)
(* An application that awaits each wrapper call before it makes the next,  *)
(* with the engine running behind the queue.                               *)
(***************************************************************************)
\* A wrapper call made when every earlier call has returned.
execute_after(n, sql, max) ==
    /\ inflight[n] = {}
    /\ execute_raw(n, sql, max)

NextSequential ==
    \/ \E n \in WrapperNodes, sql \in EngineStatements :
          execute_after(n, sql, MaxSequentialWrites)
    \/ \E n \in WrapperNodes : \E w \in inflight[n] : dispatch_sync(n, w)
    \/ \E n \in WrapperNodes : \E op \in BagToSet(spawned[n]) : spawned_send(n, op)
    \/ \E n \in WrapperNodes : handle_local_op(n)

SpecSequential == Init /\ [][NextSequential]_vars

(***************************************************************************)
(* The receiving node, with tasks registered, and ops of a peer that name  *)
(* a table it has not registered and a table with the reserved prefix.     *)
(***************************************************************************)
ForeignOps ==
    { SyncOperation(1, 16, 7, NodeIdOf("A"), Tasks, "Insert", EmptyString,
                    InsertSql(Quoted(DQ, Tasks), U1, <<"a">>)),
      SyncOperation(2, 17, 7, NodeIdOf("A"), Cache, "Insert", EmptyString,
                    InsertSql(Quoted(DQ, Cache), U1, <<"a">>)),
      SyncOperation(3, 18, 7, NodeIdOf("A"), Internal, "Insert", EmptyString,
                    InsertSql(Internal, U1, <<"a">>)) }

InitForeign == \E sent \in (SUBSET ForeignOps) \ {{}} : ReceiverInit(sent)

SpecForeign == InitForeign /\ [][NextApply]_vars

(***************************************************************************)
(* The receiving node whose application compacts the OpLog, and a peer     *)
(* whose replay delivers again an op that the compaction removed.          *)
(***************************************************************************)
CompactOps ==
    { SyncOperation(1, 16, 7, NodeIdOf("A"), Tasks, "Insert", EmptyString,
                    InsertSql(Quoted(DQ, Tasks), U1, <<"a">>)),
      SyncOperation(2, 17, 7, NodeIdOf("A"), Tasks, "Update", EmptyString,
                    UpdateSql(Quoted(DQ, Tasks), U1, <<"b">>)),
      SyncOperation(3, U64Span \div 2, 7, NodeIdOf("A"), Tasks, "Insert", EmptyString,
                    InsertSql(Quoted(DQ, Tasks), U2, <<"a">>)) }

CutOffs == {17, 18}

InitCompact == \E sent \in (SUBSET CompactOps) \ {{}} : ReceiverInit(sent)

\* A call of sync_log::compact on the store of n.
compact_log(n, before_hlc) ==
    /\ compacted.count < MaxCompactions
    /\ LET left == IF db_ok[n] THEN compact(log[n], before_hlc) ELSE log[n] IN
       /\ log' = [log EXCEPT ![n] = left]
       /\ compacted' = [count |-> compacted.count + 1,
                        before_hlc |-> before_hlc,
                        removed |-> {into_sync_op(r) :
                                       r \in DOMAIN log[n] \ DOMAIN left}]
    /\ UNCHANGED <<store, registry, hlc, inflight, spawned, queue, net,
                   applying, notes, stamps, received, dropped, writes,
                   nextOpId, dups, cmp>>
    /\ UNCHANGED <<engineVars, lifeVars, db_ok, render, entries, reg_calls, since>>

\* The replay of a peer that still holds op: the op reaches n once more
\* under a fresh op_id.
redeliver(n, op) ==
    /\ op \in compacted.removed
    /\ dups < MaxDups
    /\ dups' = dups + 1
    /\ net' = [net EXCEPT ![n] = @ \cup {Refreshed(<<op>>, nextOpId)[1]}]
    /\ nextOpId' = nextOpId + 1
    /\ UNCHANGED <<store, registry, hlc, inflight, spawned, queue, log,
                   applying, notes, stamps, received, dropped, writes, cmp>>
    /\ UNCHANGED <<engineVars, lifeVars, sideVars>>

NextCompact ==
    \/ \E n \in ReceiverNodes : \E op \in net[n] : handle_gossipsub(n, op, FALSE)
    \/ \E n \in ReceiverNodes : \E t \in BagToSet(applying[n]) : apply_remote_exec(n, t)
    \/ \E n \in ReceiverNodes : \E t \in BagToSet(applying[n]) : apply_remote_log(n, t)
    \/ \E n \in ReceiverNodes, before_hlc \in CutOffs : compact_log(n, before_hlc)
    \/ \E n \in ReceiverNodes : \E op \in compacted.removed : redeliver(n, op)

SpecCompact == InitCompact /\ [][NextCompact]_vars

(***************************************************************************)
(* Properties.                                                             *)
(***************************************************************************)
\* The row a statement affects, and the ops the OpLog holds for a row.
RowOfOp(op) == SqlParse(op.data).row

Idle(n) ==
    /\ inflight[n] = {}
    /\ spawned[n] = EmptyBag
    /\ queue[n] = << >>
    /\ applying[n] = EmptyBag

\* C1. Convergence: two nodes with the same registered tables that have
\* received the same set of ops (generated locally or delivered), with no
\* apply in flight and no local op still on its way to the engine, hold
\* identical contents in every registered table.
C1_Convergence ==
    \A a, b \in Nodes :
      (/\ received[a] = received[b]
       /\ registry[a] = registry[b]
       /\ Idle(a) /\ Idle(b))
      => \A t \in DOMAIN registry[a] \cap StoreTables : store[a][t] = store[b][t]

\* C2. On an idle node, every row for which the OpLog records operations
\* holds the contents produced by the recorded operation with the greatest
\* (hlc_time, hlc_counter, node_id).
OpsOfRow(n, t, r) == {o \in DOMAIN log[n] : o.table = t /\ RowOfOp(o) = r}

Produces(o, content) ==
    LET p == SqlParse(final_sql(o)) IN
    CASE p.verb \in {"INSERT", "REPLACE"} -> content = p.val
      [] p.verb = "DELETE" -> content = NoRow
      [] p.verb = "UPDATE" -> content \in {p.val, NoRow}
      [] OTHER -> TRUE

C2_RowIsLatestOp ==
    \A n \in Nodes : Idle(n) =>
      \A t \in DOMAIN registry[n] \cap StoreTables, r \in Rows :
        \A o \in OpsOfRow(n, t, r) :
          (\A q \in OpsOfRow(n, t, r) : ~TupleGreater(q, o))
            => Produces(o, store[n][t][r])

\* C3. The LWW decision is taken per row: a remote op that was dropped was
\* compared with a logged op on its own row of its own table.
C3_DroppedPerRow ==
    \A n \in Nodes : \A d \in dropped[n] :
      \E l \in d.latest : l.table = d.op.table /\ RowOfOp(l) = RowOfOp(d.op)

\* C4. The OpLog row of a local write carries the kind, the table and, as
\* primary_key, the key of the row the statement affected, once.
C4_LocalOpHasRowKey ==
    \A n \in Nodes : \A o \in DOMAIN log[n] :
      o.node_id = NodeIdOf(n) =>
        /\ o.primary_key = RowOfOp(o)
        /\ o.table = SqlParse(o.data).table
        /\ CopiesIn(o, log[n]) = 1

\* C5. should_apply(remote, local) is true iff local is absent or the
\* remote (hlc_time, hlc_counter, node_id bytes) is lexicographically
\* greater than the local one; on equal time and counter the greater
\* node_id wins.
LwwKey(op) == <<op.hlc_time, op.hlc_counter>> \o op.node_id

LexGreater(x, y) ==
    \E k \in 1..Len(x) : x[k] > y[k] /\ \A j \in 1..(k - 1) : x[j] = y[j]

C5_ShouldApplyIsLexOrder ==
    cmp.result # "none" =>
      \A a \in cmp.remote :
        (cmp.result = "apply") <=>
          (cmp.local = {} \/ \E b \in cmp.local : LexGreater(LwwKey(a), LwwKey(b)))

C5_Witness ==
    /\ cmp.result = "apply"
    /\ \E a \in cmp.remote, b \in cmp.local :
         /\ a.hlc_time = b.hlc_time /\ a.hlc_counter = b.hlc_counter
         /\ a.node_id[1] = b.node_id[1]
         /\ a.node_id[NodeIdLen] > b.node_id[NodeIdLen]

\* C6 as stated. LWW totality: exactly one of should_apply(a, Some(b)) and
\* should_apply(b, Some(a)) is true unless a = b, and then both are false.
C6_TotalityByOpEquality ==
    (cmp.result # "none" /\ cmp.local # {}) =>
      \A a \in cmp.remote, b \in cmp.local :
        IF a = b
        THEN cmp.result = "drop" /\ cmp.reverse = "drop"
        ELSE (cmp.result = "apply") # (cmp.reverse = "apply")

\* C6 as amended. Exactly one of the two is true unless a and b carry the
\* same (hlc_time, hlc_counter, node_id), and then both are false.
C6_TotalityByTuple ==
    (cmp.result # "none" /\ cmp.local # {}) =>
      \A a \in cmp.remote, b \in cmp.local :
        IF LwwKey(a) = LwwKey(b)
        THEN cmp.result = "drop" /\ cmp.reverse = "drop"
        ELSE (cmp.result = "apply") # (cmp.reverse = "apply")

C6_Witness ==
    /\ cmp.result = "drop" /\ cmp.reverse = "drop"
    /\ \E a \in cmp.remote, b \in cmp.local : a # b /\ LwwKey(a) = LwwKey(b)

\* C7. HLC monotonicity: on every node each (hlc_time, hlc_counter) stamped
\* on a SyncOperation is strictly greater than the one stamped before it.
C7_StampsIncrease ==
    \A n \in Nodes : \A i \in 1..(Len(stamps[n]) - 1) :
      LexGreater(stamps[n][i + 1], stamps[n][i])

\* Two stamps of one node, the second taken when the wall clock had not
\* advanced past the first (it stood still or went back).
C7_Witness ==
    \E n \in Nodes :
      /\ Len(stamps[n]) >= 2
      /\ stamps[n][1][1] = ClearCounter(33)
      /\ stamps[n][2][1] = stamps[n][1][1] + 1

\* C8. Idempotent apply: when an op that the OpLog already holds is
\* delivered again, executing and logging it again leaves the local store
\* and the OpLog as they were.
C8_RedeliveryChangesNothing ==
    [][\A n \in Nodes : \A t \in BagToSet(applying[n]) :
         (/\ BagIn(t.op, log[n])
          /\ CopiesIn(t, applying'[n]) < CopiesIn(t, applying[n]))
         => (store'[n] = store[n] /\ log'[n] = log[n])]_vars

\* The step in which the wrapper call w of node n passes classify_write and
\* dispatch_sync, and what a write that is not replicated leaves untouched.
Dispatching(n, w) == w \in inflight[n] /\ w \notin inflight'[n]

NothingProduced(n) ==
    /\ spawned'[n] = spawned[n]
    /\ queue'[n] = queue[n]
    /\ notes'[n] = notes[n]
    /\ stamps'[n] = stamps[n]
    /\ nextOpId' = nextOpId

\* C9. A successful write to a table that is not in the Registry when the
\* wrapper looks it up produces no SyncOperation and no ChangeNotification.
C9_UnregisteredNotReplicated ==
    [][\A n \in Nodes : \A w \in inflight[n] :
         (Dispatching(n, w) /\ SqlParse(w.sql).table \notin DOMAIN registry[n])
         => NothingProduced(n)]_vars

C9_Witness ==
    \E i \in 1..Len(writes) :
      /\ writes[i].outcome = "unregistered"
      /\ SqlParse(writes[i].sql).table = Cache

\* C10. A successful write to a table whose name begins with _wavesync
\* produces no SyncOperation and no ChangeNotification, registered or not.
C10_ReservedNotReplicated ==
    [][\A n \in Nodes : \A w \in inflight[n] :
         (Dispatching(n, w) /\ Head(SqlParse(w.sql).table) = "_wavesync")
         => NothingProduced(n)]_vars

C10_Witness ==
    \E i \in 1..Len(writes) :
      /\ writes[i].outcome = "reserved"
      /\ writes[i].registered
      /\ SqlParse(writes[i].sql).table = Internal


\* The statement is an INSERT, UPDATE or DELETE on a registered table that
\* does not carry the reserved prefix, as the store reads the statement.
ReplicatedWrite(n, sql) ==
    LET p == SqlParse(sql) IN
    /\ p.verb \in {"INSERT", "REPLACE", "UPDATE", "DELETE"}
    /\ p.table \in DOMAIN registry[n]
    /\ ~starts_with(p.table, ReservedPrefix)

Range(f) == {f[i] : i \in DOMAIN f}

CommittedReplicatedWrite(i) ==
    /\ i <= Len(writes)
    /\ writes[i].outcome # "error"
    /\ ReplicatedWrite(writes[i].node, writes[i].sql)

LoggedAndPublished(i) ==
    /\ i <= Len(writes)
    /\ Cardinality({o \in DOMAIN log[writes[i].node] : o.data = writes[i].sql}) = 1
    /\ \E r \in Range(published[writes[i].node]) :
         r.op.data = writes[i].sql /\ r.ok

\* C11. Every committed INSERT, UPDATE or DELETE on a registered table that
\* is not reserved results in exactly one SyncOperation, which is eventually
\* in the node's OpLog and published on the topic.
C11_CommittedWriteReplicated ==
    \A i \in 1..MaxEngineWrites :
      [](CommittedReplicatedWrite(i) => <>LoggedAndPublished(i))

\* C12. When should_apply returns false for a received op, the op is dropped
\* without effect: store, OpLog and notifications stay as they were and no
\* apply task is left behind.
C12_DropHasNoEffect ==
    [][\A n \in Nodes :
         dropped'[n] # dropped[n]
         => /\ store'[n] = store[n]
            /\ log'[n] = log[n]
            /\ notes'[n] = notes[n]
            /\ applying'[n] = applying[n]]_vars

C12_Witness ==
    \E n \in ReceiverNodes : \E d \in dropped[n] :
      /\ d.latest # {}
      /\ \E l \in d.latest : TupleGreater(l, d.op) /\ BagIn(l, log[n])
      /\ BagCardinality(notes[n]) >= 1

TasksAt(bag, pc) ==
    BagCardinality([t \in {x \in DOMAIN bag : x.pc = pc} |-> bag[t]])

\* C13. Exactly one ChangeNotification per write applied to the local store:
\* every successful local write to a registered table spawns one task, that
\* task sends one notification, an executed remote op sends one, and nothing
\* else sends any.
C13_OneNotificationPerWrite ==
    [][\A n \in Nodes :
         LET sends == IF BagCardinality(spawned'[n]) < BagCardinality(spawned[n])
                      THEN 1 ELSE 0
             logged == IF TasksAt(applying'[n], "log") < TasksAt(applying[n], "log")
                       THEN 1 ELSE 0
         IN  /\ BagCardinality(notes'[n]) = BagCardinality(notes[n]) + sends + logged
             /\ \A w \in inflight[n] :
                  (Dispatching(n, w) /\ ReplicatedWrite(n, w.sql))
                  => BagCardinality(spawned'[n]) = BagCardinality(spawned[n]) + 1]_vars

\* C14. A local write returns as soon as the store has executed it: the
\* call can always go on through dispatch_sync to its return, whatever the
\* state of the queue.
C14_WriteNeverWaits ==
    \A n \in Nodes : \A w \in inflight[n] : ENABLED dispatch_sync(n, w)

C14_Witness ==
    \E n \in WrapperNodes : \E i \in 1..Len(writes) :
      /\ writes[i].outcome = "dispatched"
      /\ Len(queue[n]) = QueueCap
      /\ spawned[n] # EmptyBag

\* C15. When the store rejects a local write the caller gets the error and
\* nothing is replicated: no stamp is taken, no op is built or enqueued, no
\* notification is sent, and the call does not reach dispatch_sync.
C15_RejectedWriteNotReplicated ==
    [][\A n \in Nodes :
         ( /\ Len(writes') = Len(writes) + 1
           /\ writes'[Len(writes')].node = n
           /\ ~SqlExecute(store[n], writes'[Len(writes')].sql).ok )
         => /\ writes'[Len(writes')].outcome = "error"
            /\ inflight'[n] = inflight[n]
            /\ store'[n] = store[n]
            /\ hlc'[n] = hlc[n]
            /\ NothingProduced(n)]_vars

C15_Witness ==
    \E i \in 1..Len(writes) :
      /\ writes[i].outcome = "error"
      /\ SqlParse(writes[i].sql).table = Tasks
      /\ \E j \in 1..(i - 1) : writes[j].outcome = "dispatched"


\* A replayed copy: the op with every field but op_id unchanged.
SameButId(a, b) == [a EXCEPT !.op_id = 0] = [b EXCEPT !.op_id = 0]

NewlyPublished(n) ==
    SubSeq(published'[n], Len(published[n]) + 1, Len(published'[n]))

UsedOpIds(n) ==
    {o.op_id : o \in DOMAIN log[n]} \cup {r.op.op_id : r \in Range(published[n])}

\* C16. A newly detected peer sets pending_full_sync and arms the timer; a
\* pending replay eventually runs; and the replay hands to publish, in
\* ascending (hlc_time, hlc_counter) order and under fresh op_ids, one copy
\* of every op the OpLog holds.
C16_NewPeerGetsFullHistory ==
    /\ \A n \in WrapperNodes : pending_full_sync[n] ~> ~pending_full_sync[n]
    /\ [][\A n \in WrapperNodes :
            /\ (peers'[n] \ peers[n] # {})
               => pending_full_sync'[n] /\ full_sync_delay'[n] = FullSyncDelay
            /\ (pending_full_sync[n] /\ ~pending_full_sync'[n])
               => LET new == NewlyPublished(n) IN
                  /\ full_sync_delay[n] = 0
                  /\ Len(new) = Cardinality(DOMAIN log[n])
                  /\ \A o \in DOMAIN log[n] :
                       \E i \in DOMAIN new : SameButId(new[i].op, o)
                  /\ \A i \in DOMAIN new : new[i].op.op_id \notin UsedOpIds(n)
                  /\ \A i, j \in DOMAIN new :
                       i < j => ~HlcPairGreater(new[i].op, new[j].op)]_vars

C16_Witness ==
    \E n \in WrapperNodes :
      /\ peers[n] # {}
      /\ ~pending_full_sync[n]
      /\ \E o \in DOMAIN log[n] : \E r \in Range(published[n]) :
           r.ok /\ SameButId(r.op, o) /\ r.op.op_id # o.op_id

\* C17. A discovery event that lists only peers already in the peer map
\* neither arms nor re-arms the timer and publishes nothing.
C17_KnownPeersDoNotRearm ==
    [][\A n \in WrapperNodes :
         ( /\ mdns_events'.count = mdns_events.count + 1
           /\ mdns_events'.last = "known" )
         => /\ pending_full_sync'[n] = pending_full_sync[n]
            /\ full_sync_delay'[n] = full_sync_delay[n]
            /\ published'[n] = published[n]
            /\ peers'[n] = peers[n]]_vars

\* The timer was armed, a second has passed, and the event about a known
\* peer has left it where it stood.
C17_Witness ==
    \E n \in WrapperNodes :
      /\ mdns_events.last = "known"
      /\ pending_full_sync[n]
      /\ full_sync_delay[n] = FullSyncDelay - 1

C19_EngineStopsWhenChannelClosed ==
    \A n \in WrapperNodes : ChannelClosed(n) ~> (engine[n] = "terminated")

\* C20. Rebuilding the wrapper on the same store preserves the OpLog:
\* build() creates _wavesync_log only when it is missing and leaves every
\* logged op in place, readable by get_ops_since and get_latest_for_row.
C20_RebuildKeepsOpLog ==
    [][\A n \in WrapperNodes :
         (wrapper[n] # "built" /\ wrapper'[n] = "built")
         => /\ has_log'[n]
            /\ ~has_log[n] => log'[n] = EmptyBag
            /\ has_log[n] =>
                 /\ log'[n] = log[n]
                 /\ get_ops_since(log'[n], 0) = Ascending(DOMAIN log[n])
                 /\ \A o \in DOMAIN log[n] :
                      get_latest_for_row(log'[n], o.table, o.primary_key)
                        = get_latest_for_row(log[n], o.table, o.primary_key)]_vars

C20_Witness ==
    \E n \in WrapperNodes :
      /\ wrapper[n] = "built"
      /\ registry[n] = EmptyRegistry
      /\ log[n] # EmptyBag


\* Where each character of a statement lies: "code", "quoted" (strings and
\* quoted identifiers, their quotes included) or "comment".
RECURSIVE RegionsFrom(_, _, _)
RegionsFrom(sql, i, state) ==
    IF i > Len(sql) THEN << >>
    ELSE LET c == sql[i]
             two == IF i < Len(sql) THEN <<c, sql[i + 1]>> ELSE <<c>>
         IN  CASE state = "lc" ->
                    <<"comment">> \o RegionsFrom(sql, i + 1, IF c = NL THEN "code" ELSE "lc")
               [] state = "bc" ->
                    IF two = <<"*", "/">>
                    THEN <<"comment", "comment">> \o RegionsFrom(sql, i + 2, "code")
                    ELSE <<"comment">> \o RegionsFrom(sql, i + 1, "bc")
               [] state = "sq" ->
                    IF two = <<SQ, SQ>>
                    THEN <<"quoted", "quoted">> \o RegionsFrom(sql, i + 2, "sq")
                    ELSE <<"quoted">> \o RegionsFrom(sql, i + 1, IF c = SQ THEN "code" ELSE "sq")
               [] state = "dq" ->
                    <<"quoted">> \o RegionsFrom(sql, i + 1, IF c = DQ THEN "code" ELSE "dq")
               [] state = "bt" ->
                    <<"quoted">> \o RegionsFrom(sql, i + 1, IF c = BT THEN "code" ELSE "bt")
               [] OTHER ->
                    IF two = <<"-", "-">>
                    THEN <<"comment", "comment">> \o RegionsFrom(sql, i + 2, "lc")
                    ELSE IF two = <<"/", "*">>
                    THEN <<"comment", "comment">> \o RegionsFrom(sql, i + 2, "bc")
                    ELSE IF c = SQ THEN <<"quoted">> \o RegionsFrom(sql, i + 1, "sq")
                    ELSE IF c = DQ THEN <<"quoted">> \o RegionsFrom(sql, i + 1, "dq")
                    ELSE IF c = BT THEN <<"quoted">> \o RegionsFrom(sql, i + 1, "bt")
                    ELSE <<"code">> \o RegionsFrom(sql, i + 1, "code")

Regions(sql) == RegionsFrom(sql, 1, "code")

\* The positions where a placeholder starts, and the digits of a $n.
PlaceholderAt(sql, dialect, i) ==
    /\ Regions(sql)[i] = "code"
    /\ IF dialect = "PostgreSQL"
       THEN sql[i] = "$" /\ DigitsAfter(sql, i) # << >>
       ELSE sql[i] = "?"

Placeholders(sql, dialect) == {i \in DOMAIN sql : PlaceholderAt(sql, dialect, i)}

\* The statement with the k-th ? replaced by the k-th bind, or $n by the
\* n-th bind, and every other character copied.
RECURSIVE SubstitutedFrom(_, _, _, _)
SubstitutedFrom(sql, binds, dialect, i) ==
    IF i > Len(sql) THEN << >>
    ELSE IF PlaceholderAt(sql, dialect, i)
    THEN IF dialect = "PostgreSQL"
         THEN format_literal(binds[parse_usize(DigitsAfter(sql, i))], dialect)
              \o SubstitutedFrom(sql, binds, dialect, i + 1 + Len(DigitsAfter(sql, i)))
         ELSE format_literal(
                 binds[Cardinality({j \in Placeholders(sql, dialect) : j <= i})], dialect)
              \o SubstitutedFrom(sql, binds, dialect, i + 1)
    ELSE <<sql[i]>> \o SubstitutedFrom(sql, binds, dialect, i + 1)

Rendered == render.result.kind # "none"

CountsAgree ==
    /\ Cardinality(Placeholders(render.sql, render.dialect)) = Len(render.binds)
    /\ render.dialect = "PostgreSQL" =>
         \A i \in Placeholders(render.sql, render.dialect) :
           parse_usize(DigitsAfter(render.sql, i)) \in DOMAIN render.binds

\* C21. The renderer substitutes exactly the placeholders outside strings,
\* quoted identifiers and comments and copies every other character: for a
\* statement with as many such placeholders as binds, the result is the
\* statement with each of them replaced by its bind's literal (the white
\* space before the binds trailer dropped).
C21_SubstitutesOnlyOutside ==
    (Rendered /\ CountsAgree)
    => render.result =
         RenderOk(trim_end(SubstitutedFrom(render.sql, render.binds, render.dialect, 1)))

\* C22. When the number of placeholders outside strings and comments
\* differs from the number of binds, the result is the error
\* PlaceholderCountMismatch with both counts, and no SQL.
C22_MismatchIsReported ==
    (Rendered
     /\ Cardinality(Placeholders(render.sql, render.dialect)) # Len(render.binds))
    => render.result =
         RenderErr("PlaceholderCountMismatch",
                   Cardinality(Placeholders(render.sql, render.dialect)),
                   Len(render.binds))


CallsFor(name) == {i \in DOMAIN reg_calls : reg_calls[i].table_name = name}

LastCallFor(name) == CHOOSE i \in CallsFor(name) : \A j \in CallsFor(name) : j <= i

\* C24. register is an upsert: a name is registered iff some call
\* registered it, get returns the metadata of the most recent call for the
\* name, and registering the same metadata a second time changes nothing.
C24_RegisterIsUpsert ==
    \A n \in WrapperNodes :
      /\ \A name \in StoreTables :
           /\ is_registered(registry[n], name) <=> CallsFor(name) # {}
           /\ get(registry[n], name) =
                IF CallsFor(name) = {} THEN {} ELSE {reg_calls[LastCallFor(name)]}
      /\ \A meta \in RegisterMetas :
           register(register(registry[n], meta), meta) = register(registry[n], meta)

\* A name registered twice with different metadata, another name never.
C24_Witness ==
    \E n \in WrapperNodes : \E name \in StoreTables :
      /\ Cardinality(CallsFor(name)) >= 2
      /\ reg_calls[LastCallFor(name)] # reg_calls[1]
      /\ get(registry[n], name) = {reg_calls[LastCallFor(name)]}
      /\ \E other \in StoreTables : ~is_registered(registry[n], other)


SyncedNames(list) == {list[i].meta.table_name : i \in {j \in DOMAIN list : list[j].synced}}

LocalNames(list) == {list[i].meta.table_name : i \in {j \in DOMAIN list : ~list[j].synced}}

SyncReturnsOk(n) == entries[n].result = "none" /\ entries'[n].result = "Ok"

\* A write to a table that the finished sync() created for a local-only
\* entry and that is not in the Registry goes through dispatch_sync.
LocalOnlyWrite(n, w) ==
    /\ entries[n].result = "Ok"
    /\ Dispatching(n, w)
    /\ SqlParse(w.sql).table \in LocalNames(entries[n].applied) \ DOMAIN registry[n]

SyncEffect(n) ==
    /\ DOMAIN registry'[n] = DOMAIN registry[n] \cup SyncedNames(entries[n].list)
    /\ \A name \in DOMAIN registry[n] \ SyncedNames(entries[n].list) :
         registry'[n][name] = registry[n][name]
    /\ \A i \in DOMAIN entries[n].list :
         entries[n].list[i].meta.table_name \in DOMAIN store'[n]

C25_StampAboveReceivedRemote ==
    [][\A n \in Nodes :
         Len(stamps'[n]) = Len(stamps[n]) + 1
         => \A r \in received[n] :
              r.node_id # NodeIdOf(n)
              => LexGreater(stamps'[n][Len(stamps'[n])],
                            <<r.hlc_time, r.hlc_counter>>)]_vars

\* The engine takes the op at the head of its queue in this step.
TakesLocalOp(n) == queue[n] # << >> /\ queue'[n] = Tail(queue[n])

\* C26. When the engine takes a local op from its queue, the op is in the
\* OpLog by the time publish has been called with it, unless the append
\* failed; the publish is called whether or not the append failed, and a
\* failed append leaves the OpLog as it was.
C26_LogThenPublishRegardless ==
    [][\A n \in WrapperNodes :
         TakesLocalOp(n) =>
           LET op == Head(queue[n]) IN
           /\ published'[n] = Append(published[n], [op |-> op, ok |-> link_ok[n]])
           /\ db_ok[n] => BagIn(op, log'[n])
           /\ ~db_ok[n] => log'[n] = log[n]]_vars

\* One op was published after its append failed and is not in the OpLog;
\* another was appended and published.
C26_Witness ==
    \E n \in WrapperNodes : \E r, q \in Range(published[n]) :
      /\ ~BagIn(r.op, log[n])
      /\ BagIn(q.op, log[n])

\* The task of the remote op t.op ends in this step at its execute.
ExecEnds(n, t) ==
    /\ t.pc = "exec"
    /\ BagIn(t, applying[n])
    /\ CopiesIn(t, applying'[n]) < CopiesIn(t, applying[n])

ExecFails(n, t) == ~execute_remote(n, t.op).ok

\* C27. When executing a winning remote op's statement on the local store
\* fails, the task ends there: the OpLog, the store and the notifications
\* stay as they were, no task and no message for the op is added, and the
\* engine still takes the messages that are on their way.
C27_FailedExecuteIsDropped ==
    [][\A n \in ReceiverNodes : \A t \in BagToSet(applying[n]) :
         (ExecEnds(n, t) /\ ExecFails(n, t)) =>
           /\ log'[n] = log[n]
           /\ notes'[n] = notes[n]
           /\ store'[n] = store[n]
           /\ applying'[n] = applying[n] (-) SetToBag({t})
           /\ net'[n] = net[n]
           /\ engine'[n] = "running"
           /\ \A op \in net'[n] : ENABLED handle_gossipsub(n, op, FALSE)]_vars

\* An op was received and won, its execute failed, and it is nowhere: not
\* logged, not notified, not dropped by LWW, no task left; a later message
\* was applied and logged.
C27_Witness ==
    \E n \in ReceiverNodes : \E lost, later \in received[n] :
      /\ ~BagIn(lost, log[n])
      /\ lost \notin net[n]
      /\ \A d \in dropped[n] : d.op # lost
      /\ \A t \in BagToSet(applying[n]) : t.op # lost
      /\ ~BagIn(ChangeNotification(lost.table, lost.kind, lost.primary_key), notes[n])
      /\ BagIn(later, log[n])
      /\ HlcPairGreater(later, lost)

\* The message op reaches the LWW check of n in this step.
Handled(n, op) == op \in net[n] /\ op \notin net'[n]

HoldsCopyOf(n, op) == \E r \in DOMAIN log[n] : SameButId(r, op)

\* C28. A replay hands to publish one copy of every logged op, equal to it
\* but for a fresh op_id; and a node whose OpLog already holds the op drops
\* a copy that reaches it, so that no task executes its statement or adds
\* an OpLog row for it.
C28_ReplayedCopyIsDropped ==
    [][\A n \in Nodes :
         /\ (pending_full_sync[n] /\ ~pending_full_sync'[n])
            => LET new == NewlyPublished(n) IN
               /\ \A o \in DOMAIN log[n] :
                    \E i \in DOMAIN new : SameButId(new[i].op, o)
               /\ \A i \in DOMAIN new :
                    /\ new[i].op.op_id \notin UsedOpIds(n)
                    /\ \E o \in DOMAIN log[n] : SameButId(new[i].op, o)
         /\ \A op \in net[n] :
              (Handled(n, op) /\ HoldsCopyOf(n, op))
              => /\ applying'[n] = applying[n]
                 /\ \E d \in dropped'[n] : d.op = op]_vars

NewPeerDetected(n) == peers'[n] \ peers[n] # {}

Replays(n) == pending_full_sync[n] /\ ~pending_full_sync'[n]

\* C29. A new peer detected while the timer is pending re-arms the one
\* timer to its full length and publishes nothing; the timer becomes
\* pending only by a detection; the replay runs once the full length has
\* passed since the last detection, and it does run.
C29_BurstGivesOneReplay ==
    /\ [][\A n \in WrapperNodes :
            /\ (NewPeerDetected(n) /\ pending_full_sync[n])
               => /\ pending_full_sync'[n]
                  /\ full_sync_delay'[n] = FullSyncDelay
                  /\ published'[n] = published[n]
            /\ (pending_full_sync'[n] /\ ~pending_full_sync[n]) => NewPeerDetected(n)
            /\ Replays(n) => full_sync_delay[n] = 0 /\ ~NewPeerDetected(n)
            /\ published'[n] # published[n]
               => Replays(n) \/ TakesLocalOp(n)]_vars
    /\ \A n \in WrapperNodes :
         (mdns_events.rearmed /\ pending_full_sync[n]) ~> ~pending_full_sync[n]

\* Two peers were detected one after the other, the second while the timer
\* of the first was pending; the timer has expired since, and the OpLog's op
\* was handed to publish once more, exactly once.
C29_Witness ==
    \E n \in WrapperNodes :
      /\ mdns_events.count = 2
      /\ mdns_events.last = "new"
      /\ mdns_events.rearmed
      /\ ~pending_full_sync[n]
      /\ Cardinality(peers[n]) = 2
      /\ \E o \in DOMAIN log[n] :
           Cardinality({i \in DOMAIN published[n] :
                          /\ SameButId(published[n][i].op, o)
                          /\ published[n][i].op.op_id # o.op_id}) = 1

\* The ops the OpLog of n holds, as SyncOperations.
LoggedOps(n) == {into_sync_op(r) : r \in DOMAIN log[n]}

\* C30. get_ops_since(x) returns exactly the logged ops whose hlc_time is
\* greater than x, each once, in ascending (hlc_time, hlc_counter) order,
\* for every x and hlc_time of the 64-bit range, 2^63 and above included.
C30_OpsSinceIsUnsigned ==
    [][\A n \in ReceiverNodes :
         (since' # since /\ since'.called) =>
           LET x == since'.since_hlc
               result == since'.result
           IN  /\ Range(result) = {o \in LoggedOps(n) : o.hlc_time > x}
               /\ Len(result) = Cardinality(Range(result))
               /\ \A i, j \in DOMAIN result :
                    i < j => ~HlcPairGreater(result[i], result[j])]_vars

\* Nothing is on its way to n and no apply task of n is running.
Settled(n) == net[n] = {} /\ applying[n] = EmptyBag

\* C31. When the apply tasks of the remote ops for one row have all ended,
\* the row holds the contents of the received op with the greatest
\* (hlc_time, hlc_counter, node_id), whatever the interleaving of the tasks.
C31_ConcurrentApplyKeepsGreatest ==
    \A n \in ReceiverNodes :
      Settled(n) =>
        \A o \in received[n] :
          (\A q \in received[n] : ~TupleGreater(q, o))
          => Produces(o, store[n][o.table][RowOfOp(o)])

\* The ops stamped for local writes of n: each was committed to the store of
\* n before dispatch_sync stamped it.
LocalStamped(n) == {o \in received[n] : o.node_id = NodeIdOf(n)}

\* The apply task t of n executes its statement in this step.
Executes(n, t) ==
    /\ t.pc = "exec"
    /\ BagIn(t, applying[n])
    /\ CopiesIn(t, applying'[n]) < CopiesIn(t, applying[n])

\* C32. A remote op whose tuple is smaller than that of a local write that
\* is committed and stamped on the same row, and whose contents the row
\* holds, does not change the store when its statement is executed, also
\* while the local op is not yet in the OpLog.
C32_SmallerRemoteKeepsLocalWrite ==
    [][\A n \in Nodes : \A t \in BagToSet(applying[n]) :
         ( /\ Executes(n, t)
           /\ \E l \in LocalStamped(n) :
                /\ l.table = t.op.table
                /\ RowOfOp(l) = RowOfOp(t.op)
                /\ TupleGreater(l, t.op)
                /\ store[n][l.table][RowOfOp(l)] # NoRow
                /\ Produces(l, store[n][l.table][RowOfOp(l)]) )
         => store'[n] = store[n]]_vars

\* The ops that dispatch_sync built for the wrapper call writes[k]; writes
\* holds the calls in the order in which the store committed them.
OpsOfWrite(k) ==
    {o \in received[writes[k].node] :
       o.node_id = NodeIdOf(writes[k].node) /\ o.data = writes[k].sql}

SameRowWrites(i, j) ==
    /\ writes[i].node = writes[j].node
    /\ writes[i].sql # writes[j].sql
    /\ writes[i].outcome = "dispatched" /\ writes[j].outcome = "dispatched"
    /\ SqlParse(writes[i].sql).table = SqlParse(writes[j].sql).table
    /\ SqlParse(writes[i].sql).row = SqlParse(writes[j].sql).row

\* C33. Of two local writes to one row made through the wrapper, the one
\* the store committed last carries the greater HLC tuple.
C33_LastCommitHasGreaterStamp ==
    \A i, j \in DOMAIN writes :
      (i < j /\ SameRowWrites(i, j))
      => \A a \in OpsOfWrite(i), b \in OpsOfWrite(j) : TupleGreater(b, a)

\* The ops of local writes in the order in which the engine gets them: the
\* ones it has published, then the ones waiting in the queue.
EngineOrder(n) == [i \in DOMAIN published[n] |-> published[n][i].op] \o queue[n]

\* C34. The ops of local writes made one after another reach the engine,
\* and so the OpLog and the topic, in the order of their HLC stamps.
C34_QueueFollowsStamps ==
    \A n \in WrapperNodes :
      \A i, j \in DOMAIN EngineOrder(n) :
        i < j => HlcPairGreater(EngineOrder(n)[j], EngineOrder(n)[i])

\* An apply task of n executes its statement or appends its op in this step.
ApplyStep(n) ==
    \E t \in BagToSet(applying[n]) :
      CopiesIn(t, applying'[n]) < CopiesIn(t, applying[n])

C36_OnlyRegisteredTablesApplied ==
    [][\A n \in ReceiverNodes : \A t \in BagToSet(applying[n]) :
         Executes(n, t) =>
           \/ is_registered(registry[n], t.op.table) /\ ~is_reserved(t.op.table)
           \/ store'[n] = store[n]]_vars

\* C37. An apply task whose OpLog lookup failed with a database error does
\* not execute its op's statement: the store stays as it was and the task
\* does not go on to append the op.
C37_FailedLookupNotApplied ==
    [][\A n \in ReceiverNodes : \A t \in BagToSet(applying[n]) :
         (Executes(n, t) /\ ~t.lookup_ok) =>
           /\ store'[n] = store[n]
           /\ applying'[n] = applying[n] (-) SetToBag({t})]_vars

\* The latest logged ops of op's row when several of them tie on
\* (hlc_time, hlc_counter) under different node_ids.
TiedLatest(n, op) ==
    LET rows == {r \in DOMAIN log[n] :
                   r.table = op.table /\ r.primary_key = op.primary_key}
        first == {r \in rows : \A q \in rows : ~HlcPairGreater(q, r)}
    IN  IF \E a, b \in first : a.node_id # b.node_id
        THEN {into_sync_op(r) : r \in first}
        ELSE {}

\* C38. When the latest logged ops of a row tie on (hlc_time, hlc_counter)
\* under different node_ids, a remote op for the row is given to an apply
\* task only if its tuple is strictly greater than that of each of them.
C38_TieComparedWithGreatestNode ==
    [][\A n \in Nodes : \A op \in net[n] :
         (Handled(n, op) /\ applying'[n] # applying[n])
         => \A l \in TiedLatest(n, op) : TupleGreater(op, l)]_vars

\* C39. Every tuple stamped on a local write is strictly greater than the
\* (hlc_time, hlc_counter) of every op of the node that its OpLog holds,
\* also after the wrapper was dropped and built again on the same store
\* and the wall clock went back in between.
C39_StampAbovePersistedOps ==
    [][\A n \in WrapperNodes :
         Len(stamps'[n]) = Len(stamps[n]) + 1
         => \A o \in LoggedOps(n) :
              o.node_id = NodeIdOf(n)
              => LexGreater(stamps'[n][Len(stamps'[n])],
                            <<o.hlc_time, o.hlc_counter>>)]_vars

\* A compact step removes from the OpLog exactly the ops whose hlc_time is
\* below the cut-off.
CompactRemovesBelow(n) ==
    compacted'.count > compacted.count =>
      LoggedOps(n)' = {o \in LoggedOps(n) : ~(o.hlc_time < compacted'.before_hlc)}

\* An op that compaction removed and that was delivered again afterwards.
Redelivered(op) ==
    \E r \in compacted.removed : SameButId(r, op) /\ r.op_id # op.op_id

\* C40. compact(before_hlc) deletes exactly the logged ops with hlc_time
\* below the cut-off, and a later re-delivery of a removed op leaves the
\* row in the local store as it is.
C40_CompactedOpNotReapplied ==
    [][\A n \in ReceiverNodes :
         /\ CompactRemovesBelow(n)
         /\ \A t \in BagToSet(applying[n]) :
              (Executes(n, t) /\ Redelivered(t.op)) => store'[n] = store[n]]_vars

=============================================================================
